---- MODULE Spec2Model ----
(***************************************************************************)
(* CRM ETL service: the synchronisation pipeline (EtlService), the HubSpot *)
(* page fetcher, the two repositories and the SQLite schema they rely on.  *)
(* Asynchronous methods are cut at their await points: one action is the   *)
(* code that runs from the resumption of one await up to the next one.         *)
(***************************************************************************)
EXTENDS Integers, Sequences, FiniteSets, TLC

VARIABLES
    world,       \* which external CRM data set the HubSpot API serves
    now,         \* the wall clock read by getCurrentTimestamp()
    nextId,      \* source of fresh uuids for generateId()
    companies,   \* rows of table companies
    contacts,    \* rows of table contacts
    syncStatus,  \* EtlService.syncStatus
    pc,          \* per syncCrmData() call: the await it is suspended at
    loc,         \* per syncCrmData() call: its local variables
    result,      \* per syncCrmData() call: what the last invocation returned or threw
    runsLeft,    \* how many more syncCrmData() invocations the clients make
    crud,        \* the API client working on the repositories beside the sync
    crudLeft,    \* how many more repository operations that client starts
    other,       \* a second API client: the delete() call it has pending
    faultsLeft,  \* how many more database calls fail without a constraint being hit
    log          \* repository calls made one after the other, with what they returned

vars == <<world, now, nextId, companies, contacts, syncStatus, pc, loc, result,
          runsLeft, crud, crudLeft, other, faultsLeft, log>>

----------------------------------------------------------------------------
(* Bounds of the model *)

MaxRuns == 2
MaxFaults == 1
MaxClock == 1
CrudRuns == 1
MaxCrudOps == 1
MaxUpserts == 3
MaxClientOps == 2

\* the concurrent callers of syncCrmData()
Calls == {1, 2}

----------------------------------------------------------------------------
(* Values *)

\* undefined / null / SQL NULL
NULL == "NULL"

\* JavaScript truthiness of an optional string
Truthy(v) == v # NULL /\ v # ""

\* String.prototype.trim over the strings that occur in the data sets
Trim(s) ==
    CASE s = " "   -> ""
      [] s = " A " -> "A"
      [] s = " e1 " -> "e1"
      [] OTHER     -> s

\* helpers.ts cleanString: str?.trim() || ''
cleanString(str) == IF str = NULL THEN "" ELSE Trim(str)

\* helpers.ts generateId: a fresh uuid
generateId == ToString(nextId)

\* helpers.ts getCurrentTimestamp: the clock as a string
getCurrentTimestamp == ToString(now)

\* helpers.ts formatError
formatError(error) == error.message

\* common.ts AppError
AppError(message, statusCode) ==
    [name |-> "AppError", message |-> message, statusCode |-> statusCode]

\* an error that is not an AppError (axios failure, sqlite failure)
PlainError(message) ==
    [name |-> "Error", message |-> message, statusCode |-> 0]

----------------------------------------------------------------------------
(* The external CRM: the data sets the HubSpot API can serve *)

\* hubspot.ts HubSpotCompany: id and the two requested properties
HsCompany(id, name, domain) ==
    [id |-> id, properties |-> [name |-> name, domain |-> domain]]

\* hubspot.ts HubSpotContact: id and the four requested properties
HsContact(id, firstname, lastname, email, assoc) ==
    [id |-> id,
     properties |-> [firstname |-> firstname, lastname |-> lastname,
                     email |-> email, associatedcompanyid |-> assoc]]

\* hubspot.ts HubSpotBaseResponse: results and paging.next.after
HsPage(results, next) == [results |-> results, next |-> next]

\* the data sets: 1 and 2 for the sync alone, 3 (small) for the sync beside an
\* API client, 4 with contacts that exchange their emails for repeated runs,
\* 5 (one contact over two pages, no company) for the sync beside an API
\* client that makes several calls
Worlds == {1, 2}
SmallWorld == {3}
ContactWorld == {5}
RepeatWorlds == {1, 2, 4}

\* /crm/v3/objects/companies, page by page
CompanyPages(w) ==
    CASE w = 1 ->
           << HsPage(<< HsCompany("c1", "A", "a.com") >>, "p2"),
              HsPage(<< HsCompany("c2", " ", NULL) >>, NULL) >>
      [] w = 2 ->
           << HsPage(<< HsCompany("c1", "B", "b.com"),
                        HsCompany("c1", " A ", "a.com") >>, NULL) >>
      [] w = 3 ->
           << HsPage(<< HsCompany("c1", "A", "a.com") >>, "p2"),
              HsPage(<< >>, NULL) >>
      [] w = 4 ->
           << HsPage(<< >>, NULL) >>
      [] w = 5 ->
           << HsPage(<< >>, NULL) >>

\* /crm/v3/objects/contacts, page by page
ContactPages(w) ==
    CASE w = 1 ->
           << HsPage(<< HsContact("k1", "A", "Z", "e1", "c1"),
                        HsContact("k2", NULL, NULL, " e1 ", "c9") >>, "p2"),
              HsPage(<< HsContact("k3", "B", NULL, " ", NULL) >>, NULL) >>
      [] w = 2 ->
           << HsPage(<< HsContact("k1", "A", "Z", "e1", NULL),
                        HsContact("k4", "B", NULL, NULL, NULL),
                        HsContact("k1", " ", NULL, "e2", "c1") >>, NULL) >>
      [] w = 3 ->
           << HsPage(<< HsContact("k1", "A", NULL, "e1", "c1") >>, NULL) >>
      [] w = 4 ->
           << HsPage(<< HsContact("k1", NULL, NULL, "e1", NULL),
                        HsContact("k2", NULL, NULL, "e2", NULL) >>, "p2"),
              HsPage(<< HsContact("k3", NULL, NULL, "e1", NULL),
                        HsContact("k1", NULL, NULL, "e3", NULL) >>, "p3"),
              HsPage(<< HsContact("k2", NULL, NULL, "e1", NULL) >>, NULL) >>
      [] w = 5 ->
           << HsPage(<< HsContact("k1", "A", NULL, "e3", "c1") >>, "p2"),
              HsPage(<< >>, NULL) >>

Pages(w, kind) == IF kind = "company" THEN CompanyPages(w) ELSE ContactPages(w)

\* the page a cursor token stands for
TokenIndex(after) == CASE after = "p2" -> 2 [] after = "p3" -> 3 [] OTHER -> 1

\* the response of the API to GET <resource>?limit=100[&after=<cursor>]
HubSpotGet(w, kind, after) ==
    Pages(w, kind)[IF after = NULL THEN 1 ELSE TokenIndex(after)]

----------------------------------------------------------------------------
(* The SQLite schema (initializeTables) and its statements.  A statement   *)
(* yields ok = FALSE and leaves the tables alone when a constraint fails.  *)

CompanyFields == {"hubspot_id", "name", "domain"}
ContactFields == {"hubspot_id", "firstname", "lastname", "email", "company_id"}

\* a companies table without the UNIQUE constraint on hubspot_id
CompanyRowOk_NoUnique(cs, row) ==
    /\ row.hubspot_id # NULL /\ row.name # NULL /\ row.domain # NULL
    /\ \A r \in cs : r.id # row.id

\* companies: id PRIMARY KEY, hubspot_id UNIQUE NOT NULL, name/domain NOT NULL
CompanyRowOk(cs, row) ==
    /\ row.hubspot_id # NULL /\ row.name # NULL /\ row.domain # NULL
    /\ \A r \in cs : r.id # row.id /\ r.hubspot_id # row.hubspot_id

\* contacts: id PRIMARY KEY, hubspot_id UNIQUE NOT NULL, email UNIQUE NOT NULL,
\* FOREIGN KEY (company_id) REFERENCES companies (id), foreign_keys = ON
ContactRowOk_NoForeignKey(ks, cs, row) ==
    /\ row.hubspot_id # NULL /\ row.email # NULL
    /\ \A r \in ks : /\ r.id # row.id
                     /\ r.hubspot_id # row.hubspot_id
                     /\ r.email # row.email

ContactRowOk(ks, cs, row) ==
    /\ row.hubspot_id # NULL /\ row.email # NULL
    /\ \A r \in ks : /\ r.id # row.id
                     /\ r.hubspot_id # row.hubspot_id
                     /\ r.email # row.email
    /\ row.company_id = NULL \/ \E c \in cs : c.id = row.company_id

\* the outcome of a statement
SqlOk(cs, ks, changes) ==
    [ok |-> TRUE, companies |-> cs, contacts |-> ks, changes |-> changes]
SqlError(cs, ks) ==
    [ok |-> FALSE, companies |-> cs, contacts |-> ks, changes |-> 0]

\* INSERT INTO companies / contacts
SqlInsert(kind, cs, ks, row) ==
    IF kind = "company"
    THEN IF CompanyRowOk(cs, row) THEN SqlOk(cs \cup {row}, ks, 1)
                                  ELSE SqlError(cs, ks)
    ELSE IF ContactRowOk(ks, cs, row) THEN SqlOk(cs, ks \cup {row}, 1)
                                      ELSE SqlError(cs, ks)

\* an UPDATE that stamps the row as well
ApplySets_Stamp(row, sets) ==
    [f \in DOMAIN row |-> IF f = "created_at" THEN "updated"
                          ELSE IF f \in DOMAIN sets THEN sets[f] ELSE row[f]]

\* a row with the columns of sets overwritten
ApplySets(row, sets) ==
    [f \in DOMAIN row |-> IF f \in DOMAIN sets THEN sets[f] ELSE row[f]]

\* an UPDATE that drops the row it names
SqlUpdate_Drop(kind, cs, ks, id, sets) ==
    IF kind = "company"
    THEN SqlOk({r \in cs : r.id # id}, ks, Cardinality({r \in cs : r.id = id}))
    ELSE SqlOk(cs, {r \in ks : r.id # id}, Cardinality({r \in ks : r.id = id}))

\* UPDATE companies / contacts SET ... WHERE id = ?
SqlUpdate(kind, cs, ks, id, sets) ==
    IF kind = "company"
    THEN LET old == {r \in cs : r.id = id}
             new == {ApplySets(r, sets) : r \in old}
             rest == cs \ old
         IN  IF \A r \in new : CompanyRowOk(rest, r)
                 \* a changed primary key or hubspot_id of a referenced row
                 \* cannot happen: id is never in sets
             THEN SqlOk(rest \cup new, ks, Cardinality(old))
             ELSE SqlError(cs, ks)
    ELSE LET old == {r \in ks : r.id = id}
             new == {ApplySets(r, sets) : r \in old}
             rest == ks \ old
         IN  IF \A r \in new : ContactRowOk(rest, cs, r)
             THEN SqlOk(cs, rest \cup new, Cardinality(old))
             ELSE SqlError(cs, ks)

\* DELETE FROM companies / contacts WHERE id = ?
SqlDelete(kind, cs, ks, id) ==
    IF kind = "company"
    THEN LET old == {r \in cs : r.id = id}
         IN  IF \E k \in ks : k.company_id = id /\ old # {}
             THEN SqlError(cs, ks)
             ELSE SqlOk(cs \ old, ks, Cardinality(old))
    ELSE LET old == {r \in ks : r.id = id}
         IN  SqlOk(cs, ks \ old, Cardinality(old))

\* SELECT ... WHERE <column> = ? through db.get: the first matching row as a
\* one-element set, or the empty set for undefined
SqlGet(rows, column, value) ==
    LET m == {r \in rows : r[column] = value}
    IN  IF m = {} THEN {} ELSE {CHOOSE r \in m : TRUE}

Table(kind, cs, ks) == IF kind = "company" THEN cs ELSE ks

Fields(kind) == IF kind = "company" THEN CompanyFields ELSE ContactFields

----------------------------------------------------------------------------
(* Repositories: the synchronous parts of create and update *)

\* x || null
OrNull(v) == IF Truthy(v) THEN v ELSE NULL

\* CompanyRepository.create / ContactRepository.create, lines 48-54 / 79-85:
\* the object { id, ...data, created_at } that create() builds and returns
NewEntity(kind, id, data, createdAt) ==
    IF kind = "company"
    THEN [id |-> id, hubspot_id |-> data.hubspot_id, name |-> data.name,
          domain |-> data.domain, created_at |-> createdAt]
    ELSE [id |-> id, hubspot_id |-> data.hubspot_id,
          firstname |-> data.firstname, lastname |-> data.lastname,
          email |-> data.email, company_id |-> data.company_id,
          created_at |-> createdAt]

\* create(): the row bound to the INSERT statement
InsertParams(kind, e) ==
    IF kind = "company"
    THEN e
    ELSE [e EXCEPT !.firstname = OrNull(e.firstname),
                   !.lastname = OrNull(e.lastname),
                   !.company_id = OrNull(e.company_id)]

\* CompanyRepository.update / ContactRepository.update: the SET list, one
\* column for every field of updates that is not undefined
UpdateSets(kind, updates) ==
    [f \in {g \in Fields(kind) : updates[g] # NULL} |-> updates[f]]

----------------------------------------------------------------------------
(* EtlService: the transformers *)

UnknownCompany == "Unknown Company"
UnknownDomain == "unknown.com"

\* x || undefined
OrUndefined(v) == IF Truthy(v) THEN v ELSE NULL

\* a transformer without placeholders
transformHubspotCompany_Raw(h) ==
    [hubspot_id |-> h.id, name |-> cleanString(h.properties.name),
     domain |-> cleanString(h.properties.domain)]

\* EtlService.transformHubspotCompany
transformHubspotCompany(h) ==
    LET name == cleanString(h.properties.name)
        domain == cleanString(h.properties.domain)
    IN  [hubspot_id |-> h.id,
         name |-> IF Truthy(name) THEN name ELSE UnknownCompany,
         domain |-> IF Truthy(domain) THEN domain ELSE UnknownDomain]

\* EtlService.transformHubspotContact, given what the company lookup yielded
transformHubspotContact(h, companyId) ==
    [hubspot_id |-> h.id,
     firstname |-> OrUndefined(cleanString(h.properties.firstname)),
     lastname |-> OrUndefined(cleanString(h.properties.lastname)),
     email |-> cleanString(h.properties.email),
     company_id |-> companyId]

----------------------------------------------------------------------------
(* EtlService.syncCrmData and the methods it awaits *)

\* whether a database call may fail for a reason other than a constraint
\* (SQLITE_BUSY, an I/O error)
Faults == IF faultsLeft > 0 THEN BOOLEAN ELSE {FALSE}

Faulted(fault) == faultsLeft' = IF fault THEN faultsLeft - 1 ELSE faultsLeft

NoData == [hubspot_id |-> NULL]

\* the local variables of one syncCrmData() call
LocInit ==
    [kind |-> "none",       \* the phase: "company" or "contact"
     after |-> NULL,        \* getAllCompanies/getAllContacts: after
     acc |-> <<>>,          \* getAllCompanies/getAllContacts: allCompanies/allContacts
     list |-> <<>>,         \* syncCompanies/syncContacts: hubspotCompanies/hubspotContacts
     idx |-> 0,             \* position of the for loop in list
     data |-> NoData,       \* companyData/contactData, then the object create() builds
     target |-> NULL,       \* upsertByHubspotId: existingCompany.id/existingContact.id
     reqs |-> <<>>,         \* what this call asked of the HTTP client, in order
     \* how the request of healthCheck() ended and what healthCheck() did
     health |-> [outcome |-> NULL, call |-> [type |-> "none"]],
     retrieved |-> [company |-> 0, contact |-> 0]]  \* 'Retrieved N ... from HubSpot'

\* EtlService.syncStatus as constructed
StatusInit ==
    [isRunning |-> FALSE, startedAt |-> NULL, completedAt |-> NULL,
     contactsProcessed |-> 0, companiesProcessed |-> 0, errors |-> <<>>]

NoResult == [type |-> "none"]
Thrown(error) == [type |-> "error", error |-> error]

\* where a call stands after a step: its next await, its locals, the status
\* and what it has returned or thrown
Out(p, l, st, res) == [pc |-> p, loc |-> l, status |-> st, result |-> res]

\* the locals once the call has returned or thrown
Returned(l) ==
    [l EXCEPT !.kind = "none", !.after = NULL, !.acc = <<>>, !.list = <<>>,
              !.idx = 0, !.data = NoData, !.target = NULL]

\* a normal end that leaves the status as it was
Complete_StaysRunning(st, l) ==
    Out("idle", Returned(l), st,
        [type |-> "summary",
         message |-> "Sync completed successfully",
         contactsSynced |-> st.contactsProcessed,
         companiesSynced |-> st.companiesProcessed,
         syncedAt |-> st.completedAt])

\* syncCrmData, lines 504-516: both phases are over
Complete(st, l) ==
    LET st2 == [st EXCEPT !.completedAt = getCurrentTimestamp,
                          !.isRunning = FALSE]
    IN  Out("idle", Returned(l), st2,
            [type |-> "summary",
             message |-> "Sync completed successfully",
             contactsSynced |-> st2.contactsProcessed,
             companiesSynced |-> st2.companiesProcessed,
             syncedAt |-> st2.completedAt])

\* a catch block that reports success
FailRun_ReturnsSummary(st, l, error) == Complete(st, l)

\* a catch block that clears the counters
FailRun_Resets(st, l, error) ==
    LET st2 == [st EXCEPT !.isRunning = FALSE,
                          !.completedAt = getCurrentTimestamp,
                          !.companiesProcessed = 0,
                          !.contactsProcessed = 0,
                          !.errors = Append(@, <<formatError(error)>>)]
    IN  Out("idle", Returned(l), st2,
            Thrown(IF error.name = "AppError"
                   THEN error
                   ELSE AppError("ETL sync failed due to an unexpected error", 500)))

\* a catch block that does not note the failure in the status
FailRun_Silent(st, l, error) ==
    LET st2 == [st EXCEPT !.isRunning = FALSE,
                          !.completedAt = getCurrentTimestamp]
    IN  Out("idle", Returned(l), st2,
            Thrown(IF error.name = "AppError"
                   THEN error
                   ELSE AppError("ETL sync failed due to an unexpected error", 500)))

\* a catch block that leaves the flag set
FailRun_StaysRunning(st, l, error) ==
    LET st2 == [st EXCEPT !.completedAt = getCurrentTimestamp,
                          !.errors = Append(@, <<formatError(error)>>)]
    IN  Out("idle", Returned(l), st2,
            Thrown(IF error.name = "AppError"
                   THEN error
                   ELSE AppError("ETL sync failed due to an unexpected error", 500)))

\* syncCrmData, lines 518-532: the catch block
FailRun(st, l, error) ==
    LET st2 == [st EXCEPT !.isRunning = FALSE,
                          !.completedAt = getCurrentTimestamp,
                          !.errors = Append(@, <<formatError(error)>>)]
    IN  Out("idle", Returned(l), st2,
            Thrown(IF error.name = "AppError"
                   THEN error
                   ELSE AppError("ETL sync failed due to an unexpected error", 500)))

\* a loop that skips nothing
NeedsAwait_Always(kind, h) == TRUE

\* syncCompanies line 547 / syncContacts lines 580-583: whether the loop body
\* reaches an await for record h (a lookup or an upsert)
NeedsAwait(kind, h) ==
    IF kind = "company"
    THEN LET d == transformHubspotCompany(h)
         IN  Truthy(d.name) /\ Truthy(d.domain)
    ELSE \/ Truthy(h.properties.associatedcompanyid)
         \/ Truthy(cleanString(h.properties.email))

\* the first record from position i on whose loop body awaits; the records
\* before it are skipped with a warning
RECURSIVE NextAwait(_, _, _)
NextAwait(kind, list, i) ==
    IF i > Len(list) THEN i
    ELSE IF NeedsAwait(kind, list[i]) THEN i
    ELSE NextAwait(kind, list, i + 1)

\* a loop that gives up after its first record
LoopDone_AfterFirst(list, j) == j > 1

\* the for loops of syncCompanies and syncContacts end with the list
LoopDone(list, j) == j > Len(list)

\* the loop body for record j up to its first await
EnterRecord(st, l, res, j) ==
    LET h == l.list[j]
    IN  IF l.kind = "company"
        THEN Out("find",
                 [l EXCEPT !.idx = j, !.data = transformHubspotCompany(h),
                           !.target = NULL], st, res)
        ELSE IF Truthy(h.properties.associatedcompanyid)
        THEN Out("lookup",
                 [l EXCEPT !.idx = j, !.data = NoData, !.target = NULL], st, res)
        ELSE Out("find",
                 [l EXCEPT !.idx = j,
                           !.data = transformHubspotContact(h, NULL),
                           !.target = NULL], st, res)

\* the for loop from position i on, up to the next await: the next record,
\* or after the company phase the first contact page, or the end of the run
ForLoop(st, l, res, i) ==
    LET j == NextAwait(l.kind, l.list, i)
    IN  IF ~LoopDone(l.list, j)
        THEN EnterRecord(st, l, res, j)
        ELSE IF l.kind = "company"
        THEN Out("page",
                 [l EXCEPT !.kind = "contact", !.after = NULL, !.acc = <<>>,
                           !.list = <<>>, !.idx = 0, !.data = NoData,
                           !.target = NULL], st, res)
        ELSE Complete(st, l)

\* a loop that goes on to the next record without counting this one
RecordDone_NoCount(st, l, res) == ForLoop(st, l, res, l.idx + 1)

\* syncCompanies line 549 / syncContacts line 585: the upsert returned
RecordDone(st, l, res) ==
    LET st2 == IF l.kind = "company"
               THEN [st EXCEPT !.companiesProcessed = @ + 1]
               ELSE [st EXCEPT !.contactsProcessed = @ + 1]
    IN  ForLoop(st2, l, res, l.idx + 1)

\* CompanyService.upsertCompanyByHubspotId / ContactService.upsertContactByHubspotId:
\* what they throw whatever the repository threw
UpsertError(kind) ==
    IF kind = "company" THEN AppError("Failed to upsert company", 500)
                        ELSE AppError("Failed to upsert contact", 500)

\* syncCompanies line 558 / syncContacts line 594: the message for a record
RecordMessage(kind, id, error) ==
    << IF kind = "company" THEN "Failed to sync company "
                           ELSE "Failed to sync contact ",
       id, ": ", formatError(error) >>

\* a per-record catch that lets the error through to syncCrmData
RecordError_Escapes(st, l, res) == FailRun(st, l, UpsertError(l.kind))

\* syncCompanies lines 557-561 / syncContacts lines 593-597: the upsert threw
RecordError(st, l, res) ==
    LET st2 == [st EXCEPT !.errors =
                   Append(@, RecordMessage(l.kind, l.list[l.idx].id,
                                           UpsertError(l.kind)))]
    IN  ForLoop(st2, l, res, l.idx + 1)

\* the call c moves on as o says
Resume(c, o) ==
    /\ pc' = [pc EXCEPT ![c] = o.pc]
    /\ loc' = [loc EXCEPT ![c] = o.loc]
    /\ syncStatus' = o.status
    /\ result' = [result EXCEPT ![c] = o.result]

\* the guard of line 476 left out
AlreadyRunning_Never(st) == FALSE

\* syncCrmData line 476: the guard
AlreadyRunning(st) == st.isRunning

\* a start that keeps the errors of the run before
Started_KeepErrors ==
    [isRunning |-> TRUE, startedAt |-> getCurrentTimestamp, completedAt |-> NULL,
     contactsProcessed |-> 0, companiesProcessed |-> 0,
     errors |-> syncStatus.errors]

\* syncCrmData lines 481-487: the status of a run that starts
Started ==
    [isRunning |-> TRUE, startedAt |-> getCurrentTimestamp, completedAt |-> NULL,
     contactsProcessed |-> 0, companiesProcessed |-> 0, errors |-> <<>>]

\* what the HTTP client was asked and whether it answered with success
\* (HubSpotApiService, the interceptors of lines 27-51); a sleep is noted too
HealthRequest(ok) ==
    [path |-> "/crm/v3/objects/contacts", limit |-> "1", after |-> NULL, ok |-> ok]
\* a request that never carries the cursor
PageRequest_NoCursor(kind, after, ok) ==
    [path |-> IF kind = "company" THEN "/crm/v3/objects/companies"
                                  ELSE "/crm/v3/objects/contacts",
     limit |-> "100", after |-> NULL, ok |-> ok]

PageRequest(kind, after, ok) ==
    [path |-> IF kind = "company" THEN "/crm/v3/objects/companies"
                                  ELSE "/crm/v3/objects/contacts",
     limit |-> "100",
     after |-> IF Truthy(after) THEN after ELSE NULL,
     ok |-> ok]
SleepRequest == [path |-> "sleep", limit |-> "", after |-> NULL, ok |-> TRUE]

\* the status reset of lines 481-487 done before the guard of line 476
SyncCrmData_ResetFirst(c) ==
    /\ pc[c] = "idle"
    /\ runsLeft > 0
    /\ runsLeft' = runsLeft - 1
    /\ IF AlreadyRunning(syncStatus)
       THEN /\ result' = [result EXCEPT
                   ![c] = Thrown(AppError("ETL sync is already running", 409))]
            /\ syncStatus' = Started
            /\ UNCHANGED <<pc, loc>>
       ELSE Resume(c, Out("health", LocInit, Started, NoResult))
    /\ UNCHANGED <<world, other, now, nextId, companies, contacts, crud, crudLeft,
                   faultsLeft, log>>

\* syncCrmData is invoked: lines 475-493, up to the await of healthCheck()
SyncCrmData(c) ==
    /\ pc[c] = "idle"
    /\ runsLeft > 0
    /\ runsLeft' = runsLeft - 1
    /\ IF AlreadyRunning(syncStatus)
       THEN /\ result' = [result EXCEPT
                   ![c] = Thrown(AppError("ETL sync is already running", 409))]
            /\ UNCHANGED <<syncStatus, pc, loc>>
       ELSE Resume(c, Out("health", LocInit, Started, NoResult))
    /\ UNCHANGED <<world, other, now, nextId, companies, contacts, crud, crudLeft, faultsLeft, log>>

\* how a request of the HTTP client may end: a 2xx response, a response with
\* another status, no response (transport error), or the 30 s timeout
HttpOutcomes == {"success", "status", "network", "timeout"}

\* httpClient.get: axios resolves on a 2xx response and rejects otherwise; the
\* response interceptor (lines 33-50) logs the rejection and throws it again
httpGet(outcome) ==
    IF outcome = "success" THEN [type |-> "return"]
                           ELSE [type |-> "throw", error |-> PlainError("Request failed")]

\* a health check without its catch block
healthCheck_Rethrows(outcome) ==
    LET response == httpGet(outcome)
    IN  IF response.type = "return" THEN [type |-> "return", value |-> TRUE]
                                    ELSE response

\* HubSpotApiService.healthCheck, lines 197-215
healthCheck(outcome) ==
    LET response == httpGet(outcome)
    IN  IF response.type = "return" THEN [type |-> "return", value |-> TRUE]
                                    ELSE [type |-> "return", value |-> FALSE]

\* a run that goes on whatever healthCheck() returned
HealthCheck_Ignored(c) ==
    /\ pc[c] = "health"
    /\ \E isHealthy \in BOOLEAN :
         LET l == [loc[c] EXCEPT !.reqs = Append(@, HealthRequest(isHealthy))]
         IN  Resume(c, Out("page",
                           [l EXCEPT !.kind = "company", !.after = NULL,
                                     !.acc = <<>>],
                           syncStatus, result[c]))
    /\ UNCHANGED <<world, other, now, nextId, companies, contacts, runsLeft, crud,
                   crudLeft, faultsLeft, log>>

\* healthCheck() returns: lines 493-499, then getAllCompanies up to its first request
HealthCheck(c) ==
    /\ pc[c] = "health"
    /\ \E outcome \in HttpOutcomes :
         LET call == healthCheck(outcome)
             l == [loc[c] EXCEPT
                      !.reqs = Append(@, HealthRequest(outcome = "success")),
                      !.health = [outcome |-> outcome, call |-> call]]
         IN  IF call.type = "throw"
             THEN Resume(c, FailRun(syncStatus, l, call.error))
             ELSE IF call.value
             THEN Resume(c, Out("page",
                                [l EXCEPT !.kind = "company", !.after = NULL,
                                          !.acc = <<>>],
                                syncStatus, result[c]))
             ELSE Resume(c, FailRun(syncStatus, l,
                                    AppError("HubSpot API is not accessible", 502)))
    /\ UNCHANGED <<world, other, now, nextId, companies, contacts, runsLeft, crud, crudLeft, faultsLeft, log>>

\* a fetch that asks for the next page without the pause
GetPage_NoDelay(c) ==
    /\ pc[c] = "page"
    /\ \E ok \in BOOLEAN :
         LET request == PageRequest(loc[c].kind, loc[c].after, ok)
             l == [loc[c] EXCEPT !.reqs = Append(@, request)]
             response == HubSpotGet(world, l.kind, request.after)
             all == l.acc \o response.results
             hasMore == response.next # NULL
         IN  IF ~ok
             THEN Resume(c, FailRun(syncStatus, l, PlainError("Request failed")))
             ELSE IF hasMore
             THEN Resume(c, Out("page",
                                [l EXCEPT !.acc = all, !.after = response.next],
                                syncStatus, result[c]))
             ELSE Resume(c, ForLoop(syncStatus,
                                    [l EXCEPT !.acc = <<>>, !.after = NULL,
                                              !.list = all,
                                              !.retrieved[l.kind] = Len(all)],
                                    result[c], 1))
    /\ UNCHANGED <<world, other, now, nextId, companies, contacts, runsLeft, crud, crudLeft, faultsLeft, log>>

\* a fetch that returns the pages it has when a request fails
GetPage_Partial(c) ==
    /\ pc[c] = "page"
    /\ \E ok \in BOOLEAN :
         LET request == PageRequest(loc[c].kind, loc[c].after, ok)
             l == [loc[c] EXCEPT !.reqs = Append(@, request)]
             response == HubSpotGet(world, l.kind, request.after)
             all == IF ok THEN l.acc \o response.results ELSE l.acc
         IN  IF ok /\ response.next # NULL
             THEN Resume(c, Out("sleep",
                                [l EXCEPT !.acc = all, !.after = response.next],
                                syncStatus, result[c]))
             ELSE Resume(c, ForLoop(syncStatus,
                                    [l EXCEPT !.acc = <<>>, !.after = NULL,
                                              !.list = all,
                                              !.retrieved[l.kind] = Len(all)],
                                    result[c], 1))
    /\ UNCHANGED <<world, other, now, nextId, companies, contacts, runsLeft, crud, crudLeft, faultsLeft, log>>

\* a page request of getAllCompanies/getAllContacts returns or fails
GetPage(c) ==
    /\ pc[c] = "page"
    /\ \E ok \in BOOLEAN :
         LET request == PageRequest(loc[c].kind, loc[c].after, ok)
             l == [loc[c] EXCEPT !.reqs = Append(@, request)]
             response == HubSpotGet(world, l.kind, request.after)
             all == l.acc \o response.results
             hasMore == response.next # NULL
         IN  IF ~ok
             THEN Resume(c, FailRun(syncStatus, l, PlainError("Request failed")))
             ELSE IF hasMore
             THEN Resume(c, Out("sleep",
                                [l EXCEPT !.acc = all, !.after = response.next],
                                syncStatus, result[c]))
             ELSE Resume(c, ForLoop(syncStatus,
                                    [l EXCEPT !.acc = <<>>, !.after = NULL,
                                              !.list = all,
                                              !.retrieved[l.kind] = Len(all)],
                                    result[c], 1))
    /\ UNCHANGED <<world, other, now, nextId, companies, contacts, runsLeft, crud, crudLeft, faultsLeft, log>>

\* sleep(rateLimitDelay) is over: the next page is requested
Sleep(c) ==
    /\ pc[c] = "sleep"
    /\ Resume(c, Out("page", [loc[c] EXCEPT !.reqs = Append(@, SleepRequest)],
                     syncStatus, result[c]))
    /\ UNCHANGED <<world, other, now, nextId, companies, contacts, runsLeft, crud, crudLeft, faultsLeft, log>>

\* transformHubspotContact lines 629-642: getCompanyByHubspotId returns or throws,
\* then syncContacts lines 583-584
LookupCompany(c) ==
    /\ pc[c] = "lookup"
    /\ \E fault \in Faults : Faulted(fault) /\
         LET l == loc[c]
             h == l.list[l.idx]
             found == SqlGet(companies, "hubspot_id",
                             h.properties.associatedcompanyid)
             companyId == IF fault \/ found = {} THEN NULL
                          ELSE (CHOOSE r \in found : TRUE).id
             contactData == transformHubspotContact(h, companyId)
         IN  IF Truthy(contactData.email)
             THEN Resume(c, Out("find", [l EXCEPT !.data = contactData],
                                syncStatus, result[c]))
             ELSE Resume(c, ForLoop(syncStatus, l, result[c], l.idx + 1))
    /\ UNCHANGED <<world, other, now, nextId, companies, contacts, runsLeft, crud, crudLeft, log>>

\* upsertByHubspotId lines 131-139: findByHubspotId returns or throws; then
\* update() up to its findById, or create() up to its INSERT
UpsertFind(c) ==
    /\ pc[c] = "find"
    /\ \E fault \in Faults : Faulted(fault) /\
         LET l == loc[c]
             existing == SqlGet(Table(l.kind, companies, contacts),
                                "hubspot_id", l.data.hubspot_id)
         IN  IF fault
             THEN Resume(c, RecordError(syncStatus, l, result[c]))
                  /\ UNCHANGED nextId
             ELSE IF existing # {}
             THEN Resume(c, Out("updFind",
                                [l EXCEPT !.target = (CHOOSE r \in existing : TRUE).id],
                                syncStatus, result[c]))
                  /\ UNCHANGED nextId
             ELSE Resume(c, Out("insert",
                                [l EXCEPT !.data = NewEntity(l.kind, generateId, l.data,
                                                             getCurrentTimestamp)],
                                syncStatus, result[c]))
                  /\ nextId' = nextId + 1
    /\ UNCHANGED <<world, other, now, companies, contacts, runsLeft, crud, crudLeft, log>>

\* update() lines 73-100: findById returns or throws
UpdateFindById(c) ==
    /\ pc[c] = "updFind"
    /\ \E fault \in Faults : Faulted(fault) /\
         LET l == loc[c]
             existing == SqlGet(Table(l.kind, companies, contacts), "id", l.target)
         IN  IF fault
             THEN Resume(c, RecordError(syncStatus, l, result[c]))
             ELSE IF existing = {} \/ DOMAIN UpdateSets(l.kind, l.data) = {}
             THEN Resume(c, RecordDone(syncStatus, l, result[c]))
             ELSE Resume(c, Out("updRun", l, syncStatus, result[c]))
    /\ UNCHANGED <<world, other, now, nextId, companies, contacts, runsLeft, crud, crudLeft, log>>

\* update() lines 100-106: the UPDATE statement returns or throws
UpdateRun(c) ==
    /\ pc[c] = "updRun"
    /\ \E fault \in Faults : Faulted(fault) /\
         LET l == loc[c]
             r == SqlUpdate(l.kind, companies, contacts, l.target,
                            UpdateSets(l.kind, l.data))
         IN  IF fault \/ ~r.ok
             THEN /\ Resume(c, RecordError(syncStatus, l, result[c]))
                  /\ UNCHANGED <<companies, contacts>>
             ELSE /\ Resume(c, Out("updRefetch", l, syncStatus, result[c]))
                  /\ companies' = r.companies
                  /\ contacts' = r.contacts
    /\ UNCHANGED <<world, other, now, nextId, runsLeft, crud, crudLeft, log>>

\* update() line 106: the closing findById returns or throws
UpdateRefetch(c) ==
    /\ pc[c] = "updRefetch"
    /\ \E fault \in Faults : Faulted(fault) /\
         IF fault
         THEN Resume(c, RecordError(syncStatus, loc[c], result[c]))
         ELSE Resume(c, RecordDone(syncStatus, loc[c], result[c]))
    /\ UNCHANGED <<world, other, now, nextId, companies, contacts, runsLeft, crud, crudLeft, log>>

\* create() lines 56-68: the INSERT statement returns or throws
CreateRun(c) ==
    /\ pc[c] = "insert"
    /\ \E fault \in Faults : Faulted(fault) /\
         LET l == loc[c]
             r == SqlInsert(l.kind, companies, contacts,
                            InsertParams(l.kind, l.data))
         IN  IF fault \/ ~r.ok
             THEN /\ Resume(c, RecordError(syncStatus, l, result[c]))
                  /\ UNCHANGED <<companies, contacts>>
             ELSE /\ Resume(c, RecordDone(syncStatus, l, result[c]))
                  /\ companies' = r.companies
                  /\ contacts' = r.contacts
    /\ UNCHANGED <<world, other, now, nextId, runsLeft, crud, crudLeft, log>>

----------------------------------------------------------------------------
(* The API client: repository calls made beside the sync, one at a time *)

CrudIdle == [pc |-> "idle", op |-> "none", kind |-> "none", arg |-> NoData,
             data |-> NoData, target |-> NULL]

Kinds == {"company", "contact"}

\* the second API client has no call under way
OtherIdle == [pc |-> "idle", kind |-> "none", id |-> NULL]

Company(hubspotId, name, domain) ==
    [hubspot_id |-> hubspotId, name |-> name, domain |-> domain]

Contact(hubspotId, firstname, lastname, email, companyId) ==
    [hubspot_id |-> hubspotId, firstname |-> firstname, lastname |-> lastname,
     email |-> email, company_id |-> companyId]

\* what the client may ask to create
CreateInputs(kind) ==
    IF kind = "company"
    THEN {Company("c1", "X", "x.com"), Company("c2", "X", "x.com")}
    ELSE {Contact("k2", "", NULL, "e1", NULL), Contact("k1", "B", NULL, "e2", NULL)}

\* what the client may ask to change
UpdateInputs(kind) ==
    IF kind = "company"
    THEN {Company("c2", "Y", NULL)}
    ELSE {Contact(NULL, NULL, NULL, "e1", NULL), Contact("k1", NULL, "Z", NULL, NULL)}

\* what the client may ask to upsert
UpsertInputs(kind) ==
    IF kind = "company"
    THEN {Company("c1", "A", "a.com"), Company("c1", "B", "b.com")}
    ELSE {Contact("k1", "A", "Z", "e1", NULL), Contact("k1", NULL, NULL, "e1", NULL),
          Contact("k1", "B", NULL, "e2", NULL), Contact("k2", NULL, NULL, "e1", NULL)}

\* the local ids the client may name: those stored
KnownIds(kind) == {r.id : r \in Table(kind, companies, contacts)}

\* a repository call returns ret (a set: empty for null) or throws; what it
\* was and what the tables hold then goes on record
Return(ok, ret, cs, ks) ==
    /\ crud' = CrudIdle
    /\ log' = Append(log, [op |-> crud.op, kind |-> crud.kind, arg |-> crud.arg,
                           ok |-> ok, ret |-> ret,
                           companies |-> cs, contacts |-> ks])

\* create() is called: lines 48-57, up to the INSERT
CrudCreate ==
    /\ crud.pc = "idle"
    /\ crudLeft > 0
    /\ \E kind \in Kinds : \E data \in CreateInputs(kind) :
         crud' = [pc |-> "insert", op |-> "create", kind |-> kind, arg |-> data,
                  data |-> NewEntity(kind, generateId, data, getCurrentTimestamp),
                  target |-> NULL]
    /\ nextId' = nextId + 1
    /\ crudLeft' = crudLeft - 1
    /\ UNCHANGED <<world, other, now, companies, contacts, syncStatus, pc, loc, result,
                   runsLeft, faultsLeft, log>>

\* update() is called: up to its findById
CrudUpdate ==
    /\ crud.pc = "idle"
    /\ crudLeft > 0
    /\ \E kind \in Kinds : \E id \in KnownIds(kind) : \E updates \in UpdateInputs(kind) :
         crud' = [pc |-> "updFind", op |-> "update", kind |-> kind,
                  arg |-> [id |-> id, updates |-> updates],
                  data |-> updates, target |-> id]
    /\ crudLeft' = crudLeft - 1
    /\ UNCHANGED <<world, other, now, nextId, companies, contacts, syncStatus, pc, loc,
                   result, runsLeft, faultsLeft, log>>

\* upsertByHubspotId() is called: up to its findByHubspotId
CrudUpsert ==
    /\ crud.pc = "idle"
    /\ crudLeft > 0
    /\ \E kind \in Kinds : \E data \in UpsertInputs(kind) :
         crud' = [pc |-> "find", op |-> "upsert", kind |-> kind, arg |-> data,
                  data |-> data, target |-> NULL]
    /\ crudLeft' = crudLeft - 1
    /\ UNCHANGED <<world, other, now, nextId, companies, contacts, syncStatus, pc, loc,
                   result, runsLeft, faultsLeft, log>>

\* delete() is called: up to its DELETE statement, which it awaits
CrudDelete ==
    /\ crud.pc = "idle"
    /\ crudLeft > 0
    /\ \E kind \in Kinds : \E id \in KnownIds(kind) :
         crud' = [pc |-> "delete", op |-> "delete", kind |-> kind,
                  arg |-> [id |-> id], data |-> NoData, target |-> id]
    /\ crudLeft' = crudLeft - 1
    /\ UNCHANGED <<world, other, now, nextId, companies, contacts, syncStatus,
                   pc, loc, result, runsLeft, faultsLeft, log>>

\* delete(): the DELETE statement runs on the tables as they are by then, and
\* delete() returns whether a row went, or throws
CrudDeleteRun ==
    /\ crud.pc = "delete"
    /\ LET r == SqlDelete(crud.kind, companies, contacts, crud.target)
       IN  /\ companies' = r.companies
           /\ contacts' = r.contacts
           /\ Return(r.ok, {}, r.companies, r.contacts)
    /\ UNCHANGED <<world, other, now, nextId, syncStatus, pc, loc, result,
                   runsLeft, crudLeft, faultsLeft>>

\* upsertByHubspotId lines 131-139: findByHubspotId returns; then update() up
\* to its findById, or create() up to its INSERT
CrudUpsertFind ==
    /\ crud.pc = "find"
    /\ LET existing == SqlGet(Table(crud.kind, companies, contacts),
                              "hubspot_id", crud.data.hubspot_id)
       IN  IF existing # {}
           THEN /\ crud' = [crud EXCEPT !.pc = "updFind",
                                        !.target = (CHOOSE r \in existing : TRUE).id]
                /\ UNCHANGED nextId
           ELSE /\ crud' = [crud EXCEPT !.pc = "insert",
                                        !.data = NewEntity(crud.kind, generateId,
                                                           crud.data,
                                                           getCurrentTimestamp)]
                /\ nextId' = nextId + 1
    /\ UNCHANGED <<world, other, now, companies, contacts, syncStatus, pc, loc, result,
                   runsLeft, crudLeft, faultsLeft, log>>

\* update() lines 73-100: findById returns
CrudUpdateFindById ==
    /\ crud.pc = "updFind"
    /\ LET existing == SqlGet(Table(crud.kind, companies, contacts), "id", crud.target)
       IN  IF existing = {} \/ DOMAIN UpdateSets(crud.kind, crud.data) = {}
           THEN Return(TRUE, existing, companies, contacts)
           ELSE crud' = [crud EXCEPT !.pc = "updRun"] /\ UNCHANGED log
    /\ UNCHANGED <<world, other, now, nextId, companies, contacts, syncStatus, pc, loc,
                   result, runsLeft, crudLeft, faultsLeft>>

\* update() lines 100-106: the UPDATE statement returns or throws
CrudUpdateRun ==
    /\ crud.pc = "updRun"
    /\ LET r == SqlUpdate(crud.kind, companies, contacts, crud.target,
                          UpdateSets(crud.kind, crud.data))
       IN  /\ companies' = r.companies
           /\ contacts' = r.contacts
           /\ IF r.ok
              THEN crud' = [crud EXCEPT !.pc = "updRefetch"] /\ UNCHANGED log
              ELSE Return(FALSE, {}, companies, contacts)
    /\ UNCHANGED <<world, other, now, nextId, syncStatus, pc, loc, result, runsLeft,
                   crudLeft, faultsLeft>>

\* update() line 106: the closing findById returns
CrudUpdateRefetch ==
    /\ crud.pc = "updRefetch"
    /\ Return(TRUE, SqlGet(Table(crud.kind, companies, contacts), "id", crud.target),
              companies, contacts)
    /\ UNCHANGED <<world, other, now, nextId, companies, contacts, syncStatus, pc, loc,
                   result, runsLeft, crudLeft, faultsLeft>>

\* create() lines 56-68: the INSERT statement returns or throws
CrudCreateRun ==
    /\ crud.pc = "insert"
    /\ LET r == SqlInsert(crud.kind, companies, contacts,
                          InsertParams(crud.kind, crud.data))
       IN  /\ companies' = r.companies
           /\ contacts' = r.contacts
           /\ Return(r.ok, IF r.ok THEN {crud.data} ELSE {},
                     r.companies, r.contacts)
    /\ UNCHANGED <<world, other, now, nextId, syncStatus, pc, loc, result, runsLeft,
                   crudLeft, faultsLeft>>

\* time passes
Tick ==
    /\ now < MaxClock
    /\ now' = now + 1
    /\ UNCHANGED <<world, other, nextId, companies, contacts, syncStatus, pc, loc, result,
                   runsLeft, crud, crudLeft, faultsLeft, log>>

----------------------------------------------------------------------------
(* The service: concurrent sync requests, with database calls that may fail *)

Start(ws, nRuns, nCrud, nFaults) ==
    /\ world \in ws
    /\ now = 0
    /\ nextId = 1
    /\ companies = {}
    /\ contacts = {}
    /\ syncStatus = StatusInit
    /\ pc = [c \in Calls |-> "idle"]
    /\ loc = [c \in Calls |-> LocInit]
    /\ result = [c \in Calls |-> NoResult]
    /\ runsLeft = nRuns
    /\ crud = CrudIdle
    /\ crudLeft = nCrud
    /\ other = OtherIdle
    /\ faultsLeft = nFaults
    /\ log = <<>>

Init == Start(Worlds, MaxRuns, 0, MaxFaults)

SyncStep(c) ==
    \/ SyncCrmData(c)
    \/ HealthCheck(c)
    \/ GetPage(c)
    \/ Sleep(c)
    \/ LookupCompany(c)
    \/ UpsertFind(c)
    \/ UpdateFindById(c)
    \/ UpdateRun(c)
    \/ UpdateRefetch(c)
    \/ CreateRun(c)

Next ==
    \/ \E c \in Calls : SyncStep(c)
    \/ Tick

Spec == Init /\ [][Next]_vars

----------------------------------------------------------------------------
(* The service with an API client at work on the repositories meanwhile;    *)
(* database calls fail on constraints only                                  *)

CrudStep ==
    \/ CrudCreate
    \/ CrudUpdate
    \/ CrudUpsert
    \/ CrudDelete
    \/ CrudDeleteRun
    \/ CrudUpsertFind
    \/ CrudUpdateFindById
    \/ CrudUpdateRun
    \/ CrudUpdateRefetch
    \/ CrudCreateRun

InitCrud == Start(SmallWorld, CrudRuns, MaxCrudOps, 0)

NextCrud ==
    \/ \E c \in Calls : SyncStep(c)
    \/ CrudStep

SpecCrud == InitCrud /\ [][NextCrud]_vars

----------------------------------------------------------------------------
(* The repositories alone: upserts made one after the other *)

InitUpsert == Start(SmallWorld, 0, MaxUpserts, 0)

NextUpsert ==
    \/ CrudUpsert
    \/ CrudUpsertFind
    \/ CrudUpdateFindById
    \/ CrudUpdateRun
    \/ CrudUpdateRefetch
    \/ CrudCreateRun
    \/ Tick

SpecUpsert == InitUpsert /\ [][NextUpsert]_vars

----------------------------------------------------------------------------
(* The service when every external call it awaits returns or fails in the   *)
(* end: the continuation of a call that is Running is eventually run        *)

\* the next step of call c once it is Running
Continue(c) ==
    \/ HealthCheck(c)
    \/ GetPage(c)
    \/ Sleep(c)
    \/ LookupCompany(c)
    \/ UpsertFind(c)
    \/ UpdateFindById(c)
    \/ UpdateRun(c)
    \/ UpdateRefetch(c)
    \/ CreateRun(c)

InitLive == Start(Worlds, MaxRuns, 0, MaxFaults)

\* the steps of the callers; the clock plays no part in whether a run ends
NextLive == \E c \in Calls : SyncStep(c)

SpecLive == InitLive /\ [][NextLive]_vars /\ \A c \in Calls : WF_vars(Continue(c))

----------------------------------------------------------------------------
(* An API client's upserts with the deletes of a second client between      *)
(* their awaits                                                             *)

\* delete() of a repository is called by a second client, beside the first
\* client's upserts: up to its DELETE statement, which it awaits
DeleteConcurrently ==
    /\ other.pc = "idle"
    /\ crudLeft > 0
    /\ \E kind \in Kinds : \E id \in KnownIds(kind) :
         other' = [pc |-> "delete", kind |-> kind, id |-> id]
    /\ crudLeft' = crudLeft - 1
    /\ UNCHANGED <<world, now, nextId, companies, contacts, syncStatus, pc, loc,
                   result, runsLeft, crud, faultsLeft, log>>

\* the second client's DELETE statement runs, whether the first client's
\* upsert is still under way or has returned, and its delete() returns
DeleteConcurrentlyRun ==
    /\ other.pc = "delete"
    /\ LET r == SqlDelete(other.kind, companies, contacts, other.id)
       IN  /\ companies' = r.companies
           /\ contacts' = r.contacts
           /\ log' = Append(log, [op |-> "delete", kind |-> other.kind,
                                  arg |-> [id |-> other.id], ok |-> r.ok,
                                  ret |-> {}, companies |-> r.companies,
                                  contacts |-> r.contacts])
    /\ other' = OtherIdle
    /\ UNCHANGED <<world, now, nextId, syncStatus, pc, loc, result, runsLeft,
                   crud, crudLeft, faultsLeft>>

InitRace == Start(SmallWorld, 0, MaxUpserts, 0)

NextRace ==
    \/ CrudUpsert
    \/ CrudUpsertFind
    \/ CrudUpdateFindById
    \/ CrudUpdateRun
    \/ CrudUpdateRefetch
    \/ CrudCreateRun
    \/ DeleteConcurrently
    \/ DeleteConcurrentlyRun

SpecRace == InitRace /\ [][NextRace]_vars

----------------------------------------------------------------------------
(* One caller of the service and an API client, while time passes;          *)
(* database calls fail on constraints only                                  *)

InitStore == Start(SmallWorld, CrudRuns, MaxCrudOps, 0)

NextStore ==
    \/ SyncStep(1)
    \/ CrudStep
    \/ Tick

SpecStore == InitStore /\ [][NextStore]_vars

----------------------------------------------------------------------------
(* One caller of the service and an API client that makes several calls one *)
(* after the other; database calls fail on constraints only                 *)

InitUnique == Start(ContactWorld, CrudRuns, MaxClientOps, 0)

NextUnique ==
    \/ SyncStep(1)
    \/ CrudStep

SpecUnique == InitUnique /\ [][NextUnique]_vars

----------------------------------------------------------------------------
(* One caller of the service and a client that reads the status and then    *)
(* does what it likes with what it got                                      *)

\* what the client does, in the same turn, with the object it received
Mutations == {"none", "fields", "push", "clear"}

\* getSyncStatus(): { ...this.syncStatus }, a new object whose errors
\* property is the very array of the internal status; the client then
\* assigns to the fields of its object, or pushes to or empties its errors
GetSyncStatus ==
    /\ crudLeft > 0
    /\ crudLeft' = crudLeft - 1
    /\ \E mutation \in Mutations :
         LET errors == CASE mutation = "push" -> Append(syncStatus.errors, <<"x">>)
                         [] mutation = "clear" -> <<>>
                         [] OTHER -> syncStatus.errors
             copy == [syncStatus EXCEPT !.errors = errors]
         IN  /\ syncStatus' = [syncStatus EXCEPT !.errors = errors]
             /\ log' = Append(log,
                   [op |-> "getSyncStatus", kind |-> "status",
                    arg |-> [hubspot_id |-> NULL, mutation |-> mutation],
                    ok |-> TRUE,
                    ret |-> {IF mutation = "fields"
                             THEN [copy EXCEPT !.isRunning = ~@,
                                               !.companiesProcessed = @ + 1,
                                               !.completedAt = "x"]
                             ELSE copy},
                    companies |-> companies, contacts |-> contacts])
    /\ UNCHANGED <<world, other, now, nextId, companies, contacts, pc, loc, result,
                   runsLeft, crud, faultsLeft>>

InitStatus == Start(SmallWorld, MaxRuns, MaxCrudOps, 0)

NextStatus ==
    \/ SyncStep(1)
    \/ GetSyncStatus

SpecStatus == InitStatus /\ [][NextStatus]_vars

----------------------------------------------------------------------------
(* The service run again and again by one caller, the stores read between   *)
(* the runs; database calls fail on constraints only                        *)

\* findAll() of one repository is called by the API client, whatever the
\* sync is doing: up to its SELECT, which it awaits
FindAll ==
    /\ crud.pc = "idle"
    /\ crudLeft > 0
    /\ \E kind \in Kinds :
         crud' = [pc |-> "all", op |-> "findAll", kind |-> kind,
                  arg |-> NoData, data |-> NoData, target |-> NULL]
    /\ crudLeft' = crudLeft - 1
    /\ UNCHANGED <<world, other, now, nextId, companies, contacts, syncStatus,
                   pc, loc, result, runsLeft, faultsLeft, log>>

\* findAll(): the SELECT is answered with the rows the table holds by then;
\* on record goes where the caller's runs stood at the read: how many were
\* left to start, and whether the last one had returned its summary
FindAllRun ==
    /\ crud.pc = "all"
    /\ crud' = CrudIdle
    /\ log' = Append(log, [op |-> "findAll", kind |-> crud.kind,
                           arg |-> [hubspot_id |-> NULL, runsLeft |-> runsLeft,
                                    settled |-> (/\ pc[1] = "idle"
                                                 /\ result[1].type = "summary")],
                           ok |-> TRUE,
                           ret |-> Table(crud.kind, companies, contacts),
                           companies |-> companies, contacts |-> contacts])
    /\ UNCHANGED <<world, other, now, nextId, companies, contacts, syncStatus,
                   pc, loc, result, runsLeft, crudLeft, faultsLeft>>

InitTwice == Start(RepeatWorlds, MaxRuns, MaxCrudOps, 0)

NextTwice ==
    \/ SyncStep(1)
    \/ FindAll
    \/ FindAllRun
    \/ Tick

SpecTwice == InitTwice /\ [][NextTwice]_vars

----------------------------------------------------------------------------
(* Properties of the orchestrator *)

\* a call that has set isRunning and not yet reached its terminal transition
Running(c) == pc[c] # "idle"

Last(seq) == seq[Len(seq)]

\* the per-record messages of one phase in an error list
RecordErrors(errs, kind) ==
    {i \in DOMAIN errs :
        /\ Len(errs[i]) = 4
        /\ errs[i][1] = RecordMessage(kind, "", UpsertError(kind))[1]}

\* all the records of a resource, page after page
RECURSIVE Flatten(_)
Flatten(pages) ==
    IF pages = <<>> THEN <<>> ELSE Head(pages).results \o Flatten(Tail(pages))

AllRecords(w, kind) == Flatten(Pages(w, kind))

\* a page request (not the health check) for a resource is in a request log
PageRequested(reqs, kind) ==
    \E i \in DOMAIN reqs :
        reqs[i].limit = "100" /\ reqs[i].path = PageRequest(kind, NULL, TRUE).path

Conflict == Thrown(AppError("ETL sync is already running", 409))

\* C1: in every reachable state at most one syncCrmData() call is Running,
\* and isRunning is set exactly while there is one
C1_AtMostOneRunning ==
    /\ Cardinality({c \in Calls : Running(c)}) <= 1
    /\ syncStatus.isRunning <=> \E c \in Calls : Running(c)

\* C1 witness: a run is under way and the other caller has been turned away
C1_Witness ==
    \E c, d \in Calls :
        c # d /\ Running(c) /\ loc[c].kind = "contact" /\ result[d] = Conflict

\* C2: a syncCrmData() call made while a run is Running throws the 409
\* conflict error and changes nothing: the status with its timestamps,
\* counters and errors, the stores, and the position and locals of the
\* active run are what they were
C2_ConflictMutatesNothing ==
    [][(runsLeft' # runsLeft /\ syncStatus.isRunning) =>
          /\ syncStatus' = syncStatus
          /\ companies' = companies /\ contacts' = contacts
          /\ pc' = pc /\ loc' = loc
          /\ \E c \in Calls :
                /\ ~Running(c)
                /\ result' = [result EXCEPT ![c] = Conflict]]_vars

\* C2 witness: a caller was turned away while the run had counted records
C2_Witness ==
    \E c, d \in Calls :
        /\ c # d /\ Running(c) /\ result[d] = Conflict
        /\ syncStatus.isRunning
        /\ syncStatus.companiesProcessed > 0
        /\ syncStatus.errors # <<>>

\* C3: within a run no contact page is requested and no contact is handled
\* while the company phase lasts, and once the contact phase has begun every
\* fetched company has been upserted or recorded as a per-record error
C3_PhasesDoNotOverlap ==
    \A c \in Calls :
        /\ (Running(c) /\ loc[c].kind \in {"none", "company"}) =>
              /\ ~PageRequested(loc[c].reqs, "contact")
              /\ syncStatus.contactsProcessed = 0
              /\ RecordErrors(syncStatus.errors, "contact") = {}
              /\ loc[c].retrieved.contact = 0
        /\ (Running(c) /\ loc[c].kind = "contact") =>
              /\ loc[c].retrieved.company = Len(AllRecords(world, "company"))
              /\ syncStatus.companiesProcessed
                   + Cardinality(RecordErrors(syncStatus.errors, "company"))
                 = Len(AllRecords(world, "company"))

\* C3 witness: the contact phase is at work after a company phase in which
\* one record was upserted and another failed
C3_Witness ==
    \E c \in Calls :
        /\ Running(c) /\ loc[c].kind = "contact" /\ pc[c] = "find"
        /\ syncStatus.companiesProcessed > 0
        /\ RecordErrors(syncStatus.errors, "company") # {}

\* the database steps of an upsert
UpsertSteps == {"find", "updFind", "updRun", "updRefetch", "insert"}

\* the upsert of the record that call c is at is about to throw: its
\* statement violates a constraint, or the database call fails otherwise
UpsertThrows(c) ==
    /\ pc[c] \in UpsertSteps
    /\ loc'[c] # loc[c]
    /\ \/ faultsLeft' < faultsLeft
       \/ /\ pc[c] = "insert"
          /\ ~SqlInsert(loc[c].kind, companies, contacts,
                        InsertParams(loc[c].kind, loc[c].data)).ok
       \/ /\ pc[c] = "updRun"
          /\ ~SqlUpdate(loc[c].kind, companies, contacts, loc[c].target,
                        UpdateSets(loc[c].kind, loc[c].data)).ok

\* the contacts of a data set that are skipped for want of an email
SkippedContacts(w) ==
    LET all == AllRecords(w, "contact")
    IN  {i \in DOMAIN all : ~Truthy(cleanString(all[i].properties.email))}

\* C4: when the upsert of record i throws, one message naming that record's
\* external id is appended to errors, no counter moves, the call stays in
\* the loop (next record, next phase or normal end, never the failure path),
\* and a run that returns its summary has accounted for every fetched record
C4_RecordErrorStaysInLoop ==
    [][\A c \in Calls :
          /\ UpsertThrows(c) =>
                LET l == loc[c]
                    id == l.list[l.idx].id
                IN  /\ syncStatus'.errors =
                          Append(syncStatus.errors,
                                 RecordMessage(l.kind, id, UpsertError(l.kind)))
                    /\ Last(syncStatus'.errors)[2] = id
                    /\ syncStatus'.companiesProcessed = syncStatus.companiesProcessed
                    /\ syncStatus'.contactsProcessed = syncStatus.contactsProcessed
                    /\ result'[c].type # "error"
                    /\ IF pc'[c] # "idle"
                       THEN \/ loc'[c].kind = l.kind /\ loc'[c].idx > l.idx
                            \/ /\ l.kind = "company"
                               /\ loc'[c].kind = "contact" /\ pc'[c] = "page"
                       ELSE /\ result'[c].type = "summary"
                            /\ ~syncStatus'.isRunning
          /\ (Running(c) /\ pc'[c] = "idle" /\ result'[c].type = "summary") =>
                /\ syncStatus'.companiesProcessed
                     + Cardinality(RecordErrors(syncStatus'.errors, "company"))
                   = Len(AllRecords(world, "company"))
                /\ syncStatus'.contactsProcessed
                     + Cardinality(RecordErrors(syncStatus'.errors, "contact"))
                     + Cardinality(SkippedContacts(world))
                   = Len(AllRecords(world, "contact"))]_vars

\* C4 witness: a run returned its summary although its first company and a
\* contact failed; the records after them were upserted
C4_Witness ==
    \E c \in Calls :
        /\ ~Running(c) /\ result[c].type = "summary" /\ ~syncStatus.isRunning
        /\ Len(syncStatus.errors) >= 2
        /\ syncStatus.errors[1][2] = AllRecords(world, "company")[1].id
        /\ RecordErrors(syncStatus.errors, "contact") # {}
        /\ syncStatus.companiesProcessed > 0
        /\ syncStatus.contactsProcessed > 0

FatalError == Thrown(AppError("ETL sync failed due to an unexpected error", 500))

\* call c has just had a request answered with a failure
RequestFailed(c, limit) ==
    /\ loc'[c].reqs # loc[c].reqs
    /\ loc'[c].reqs # <<>>
    /\ Last(loc'[c].reqs).limit = limit
    /\ ~Last(loc'[c].reqs).ok

\* C5: when a page request fails the run ends Failed: isRunning is false,
\* completedAt is set, the failure message is appended to errors, nothing
\* more of the run is executed and the caller gets an AppError; a call that
\* returned a summary had no failed request
C5_PageFailureFailsRun ==
    /\ [](\A c \in Calls :
             result[c].type = "summary" =>
                \A i \in DOMAIN loc[c].reqs : loc[c].reqs[i].ok)
    /\ [][\A c \in Calls :
             RequestFailed(c, "100") =>
                /\ ~syncStatus'.isRunning
                /\ syncStatus'.completedAt = getCurrentTimestamp
                /\ syncStatus'.completedAt # NULL
                /\ syncStatus'.errors =
                      Append(syncStatus.errors, <<"Request failed">>)
                /\ syncStatus'.companiesProcessed = syncStatus.companiesProcessed
                /\ syncStatus'.contactsProcessed = syncStatus.contactsProcessed
                /\ companies' = companies /\ contacts' = contacts
                /\ pc'[c] = "idle"
                /\ result'[c] = FatalError
                /\ result'[c].error.name = "AppError"]_vars

\* C5 witness: the contact fetch failed after companies had been upserted
C5_Witness ==
    \E c \in Calls :
        /\ ~Running(c) /\ result[c] = FatalError /\ ~syncStatus.isRunning
        /\ loc[c].reqs # <<>>
        /\ Last(loc[c].reqs) = PageRequest("contact", NULL, FALSE)
        /\ syncStatus.companiesProcessed > 0
        /\ Last(syncStatus.errors) = <<"Request failed">>

Unavailable == Thrown(AppError("HubSpot API is not accessible", 502))

\* C6: a run whose health check reports unreachable has done nothing before
\* it and ends Failed at once: exactly one entry in errors, both counters 0,
\* no page requested, both stores as they were, and the caller gets the 502
\* error
C6_UnhealthyFailsBeforeAnyWork ==
    /\ [](\A c \in Calls :
             pc[c] = "health" =>
                /\ loc[c].reqs = <<>>
                /\ syncStatus.isRunning
                /\ syncStatus.errors = <<>>
                /\ syncStatus.companiesProcessed = 0
                /\ syncStatus.contactsProcessed = 0)
    /\ [][\A c \in Calls :
             RequestFailed(c, "1") =>
                /\ loc'[c].reqs = <<HealthRequest(FALSE)>>
                /\ ~syncStatus'.isRunning
                /\ syncStatus'.completedAt # NULL
                /\ syncStatus'.errors = << <<"HubSpot API is not accessible">> >>
                /\ syncStatus'.companiesProcessed = 0
                /\ syncStatus'.contactsProcessed = 0
                /\ companies' = companies /\ contacts' = contacts
                /\ nextId' = nextId
                /\ pc'[c] = "idle"
                /\ result'[c] = Unavailable]_vars

\* C6 witness: a run was refused by the health check while the stores held
\* the entities of an earlier run
C6_Witness ==
    \E c \in Calls :
        /\ ~Running(c) /\ result[c] = Unavailable /\ ~syncStatus.isRunning
        /\ Len(syncStatus.errors) = 1
        /\ companies # {} /\ contacts # {}

\* ---------------------------------------------------------------------
\* Properties of the repositories

\* the fields update() sets when they are given: every column but id and
\* created_at
Mutable(kind) == Fields(kind)

\* the rows of one kind a recorded call left behind
TableAt(entry) == Table(entry.kind, entry.companies, entry.contacts)

\* the rows of one kind before the i-th recorded call
TableBefore(i) ==
    IF i = 1 THEN {}
    ELSE Table(log[i].kind, log[i - 1].companies, log[i - 1].contacts)

\* the rows carrying an external id
WithHubspotId(rows, hubspotId) == {r \in rows : r.hubspot_id = hubspotId}

\* the i-th recorded call is an upsert that returned
Upserted(i) == log[i].op = "upsert" /\ log[i].ok

\* C7: after upsert(c1) then upsert(c2) with the same external id exactly one
\* entity has that external id, with the local id and created_at the first
\* call assigned and c2's field values, and the second call added no row;
\* upserting the same candidate twice leaves the store as upserting it once
C7_UpsertUpdatesInPlace ==
    \A i \in 1..(Len(log) - 1) :
        (/\ Upserted(i) /\ Upserted(i + 1)
         /\ log[i].kind = log[i + 1].kind
         /\ log[i].arg.hubspot_id = log[i + 1].arg.hubspot_id) =>
            LET c2 == log[i + 1].arg
                rows == WithHubspotId(TableAt(log[i + 1]), c2.hubspot_id)
            IN  /\ Cardinality(rows) = 1
                /\ \A r \in rows : \A first \in log[i].ret :
                      /\ r.id = first.id
                      /\ r.created_at = first.created_at
                      /\ \A f \in DOMAIN c2 : r[f] = OrNull(c2[f])
                /\ log[i].ret # {}
                /\ Cardinality(TableAt(log[i + 1])) = Cardinality(TableAt(log[i]))
                /\ log[i].arg = c2 =>
                      /\ log[i + 1].companies = log[i].companies
                      /\ log[i + 1].contacts = log[i].contacts

\* C8: when upsert finds an existing entity, every mutable field of the
\* stored entity is the candidate's afterwards, an absent firstname, lastname
\* or company reference included, and that entity is what the call returns
C8_UpsertOverwritesAllFields ==
    \A i \in DOMAIN log :
        (Upserted(i) /\ WithHubspotId(TableBefore(i), log[i].arg.hubspot_id) # {}) =>
            \A r \in WithHubspotId(TableAt(log[i]), log[i].arg.hubspot_id) :
                /\ \A f \in Mutable(log[i].kind) : r[f] = OrNull(log[i].arg[f])
                /\ log[i].ret = {r}

\* no two rows with one external id or one local id
Keyed(rows) ==
    \A r, q \in rows : (r.hubspot_id = q.hubspot_id \/ r.id = q.id) => r = q

\* every entity of before is in after under the same local id
SameIds(before, after) ==
    \A r \in before : \E q \in after : q.hubspot_id = r.hubspot_id /\ q.id = r.id

\* C9: after a second full sync of an unchanged data set the stores hold as
\* many companies and contacts as after the first, every external id has
\* the local id it had, and no external id or local id is stored twice:
\* whatever findAll() of a repository read after a run had returned its
\* summary, the repository holds as much once a later run has returned its
\* summary
C9_SyncTwiceIdempotent ==
    \A i \in DOMAIN log :
        (/\ log[i].op = "findAll" /\ log[i].arg.settled
         /\ pc[1] = "idle" /\ result[1].type = "summary"
         /\ runsLeft < log[i].arg.runsLeft) =>
            LET rows == Table(log[i].kind, companies, contacts)
            IN  /\ Cardinality(rows) = Cardinality(log[i].ret)
                /\ SameIds(log[i].ret, rows)
                /\ Keyed(rows)

\* the external id is stored already
Stored(kind, hubspotId) ==
    WithHubspotId(Table(kind, companies, contacts), hubspotId) # {}

\* the row with local id id is stored and another row of its table carries
\* the external id
HeldByAnother(kind, id, hubspotId) ==
    LET rows == Table(kind, companies, contacts)
    IN  /\ \E r \in rows : r.id = id
        /\ \E r \in rows : r.id # id /\ r.hubspot_id = hubspotId

\* the API client's call fails and is on record as failed
ClientCallFails ==
    /\ Len(log') = Len(log) + 1
    /\ ~log'[Len(log')].ok
    /\ log'[Len(log')].ret = {}

\* C10: in every state no two companies and no two contacts share an
\* external id, whatever create, update, upsert, delete and sync did and in
\* whatever order; an INSERT of an external id that is stored already throws
\* and changes neither table: the sync records it as that record's error,
\* the API client's call fails; so does the API client's UPDATE that sets
\* the external id of a row to one another row carries
C10_ExternalIdUnique ==
    /\ [](/\ \A r, q \in companies : r.hubspot_id = q.hubspot_id => r = q
          /\ \A r, q \in contacts : r.hubspot_id = q.hubspot_id => r = q)
    /\ [][/\ \A c \in Calls :
               (/\ pc[c] = "insert" /\ loc'[c] # loc[c]
                /\ Stored(loc[c].kind, loc[c].data.hubspot_id)) =>
                   /\ companies' = companies /\ contacts' = contacts
                   /\ syncStatus'.errors =
                         Append(syncStatus.errors,
                                RecordMessage(loc[c].kind, loc[c].data.hubspot_id,
                                              UpsertError(loc[c].kind)))
          /\ (/\ crud' # crud
              /\ \/ /\ crud.pc = "insert"
                    /\ Stored(crud.kind, crud.data.hubspot_id)
                 \/ /\ crud.pc = "updRun"
                    /\ HeldByAnother(crud.kind, crud.target,
                                     crud.data.hubspot_id)) =>
                 /\ companies' = companies /\ contacts' = contacts
                 /\ ClientCallFails]_vars

\* C10 witness: the sync stored contact k1, the client created contact k2 and
\* then asked to change k2's external id to k1: the UPDATE was rejected and
\* both rows are as they were
C10_Witness ==
    /\ Len(log) = 2
    /\ log[1].op = "create" /\ log[1].kind = "contact" /\ log[1].ok
    /\ log[2].op = "update" /\ log[2].kind = "contact" /\ ~log[2].ok
    /\ log[2].arg.updates.hubspot_id = "k1"
    /\ log[2].contacts = log[1].contacts
    /\ {r.hubspot_id : r \in contacts} = {"k1", "k2"}
    /\ syncStatus.contactsProcessed = 1

\* every row of before that is still in after, found by its local id or by
\* its external id, has the local id and the created_at it had
SameIdentity(before, after) ==
    \A r \in before : \A q \in after :
        (q.id = r.id \/ q.hubspot_id = r.hubspot_id) =>
            q.id = r.id /\ q.created_at = r.created_at

\* the rows of after that before had not
Inserted(before, after) == {q \in after : \A r \in before : r.id # q.id}

\* C11: the local id and created_at of a stored entity are those its insert
\* gave it (the entity create() built), and no step of an update or upsert,
\* made by the API client or by the sync, changes either of them
C11_IdAndCreatedAtImmutable ==
    [][/\ SameIdentity(companies, companies')
       /\ SameIdentity(contacts, contacts')
       /\ \A q \in Inserted(companies, companies') \cup Inserted(contacts, contacts') :
             \/ pc[1] = "insert" /\ q = InsertParams(loc[1].kind, loc[1].data)
             \/ crud.pc = "insert" /\ q = InsertParams(crud.kind, crud.data)]_vars

\* C11 witness: the client created company c1, and a sync that started later
\* overwrote its name: the row has the id and created_at the client's
\* create() returned
C11_Witness ==
    /\ log # <<>> /\ log[1].op = "create" /\ log[1].ok /\ log[1].kind = "company"
    /\ syncStatus.startedAt # NULL
    /\ \E first \in log[1].ret : \E r \in companies :
          /\ first.name = "X" /\ r.name = "A"
          /\ r.id = first.id /\ r.created_at = first.created_at
          /\ r.created_at # syncStatus.startedAt

\* every row of before that is still in after has the external id it had
SameHubspotId(before, after) ==
    \A r \in before : \A q \in after : q.id = r.id => q.hubspot_id = r.hubspot_id

\* C12: no operation of the services or repositories, an update that names
\* a hubspot_id included, changes the hubspot_id of a stored company or
\* contact
C12_ExternalIdImmutable ==
    [][/\ SameHubspotId(companies, companies')
       /\ SameHubspotId(contacts, contacts')]_vars

\* C13: whatever the caller does to the object getSyncStatus() returned,
\* appending to or clearing its errors list included, the internal status
\* (isRunning, timestamps, counters and errors) stays as it was
C13_StatusCopyIndependent ==
    [][(log' # log /\ log'[Len(log')].op = "getSyncStatus") =>
          syncStatus' = syncStatus]_vars

\* the page requests for one kind among what a call asked, in order
PageRequests(reqs, kind) ==
    SelectSeq(reqs, LAMBDA q : /\ q.path = PageRequest(kind, NULL, TRUE).path
                               /\ q.limit = "100")

\* the records of the first n pages, in order
RECURSIVE FirstPages(_, _)
FirstPages(pages, n) ==
    IF n = 0 THEN <<>> ELSE FirstPages(pages, n - 1) \o pages[n].results

\* the fetch of one kind by call c has returned its list
Fetched(c, kind) ==
    /\ pc[c] \notin {"idle", "health"}
    /\ \/ kind = "company" /\ loc[c].kind = "contact"
       \/ loc[c].kind = kind /\ pc[c] \notin {"page", "sleep"}

\* C14: the first page request of a fetch carries no cursor, every later one
\* the cursor of the response just before it; no request follows a response
\* without a next cursor or a failed request; a fetch over a chain of k pages
\* that returns has made exactly k requests and returns the k pages'
\* records in order
C14_PagingFollowsCursors ==
    \A c \in Calls : \A kind \in Kinds :
        LET pages == Pages(world, kind)
            asked == PageRequests(loc[c].reqs, kind)
        IN  /\ Len(asked) <= Len(pages)
            /\ \A i \in DOMAIN asked :
                  /\ asked[i].after = IF i = 1 THEN NULL ELSE pages[i - 1].next
                  /\ i < Len(asked) => asked[i].ok /\ pages[i].next # NULL
            /\ (loc[c].kind = kind /\ pc[c] \in {"page", "sleep"}) =>
                  /\ loc[c].acc = FirstPages(pages, Len(asked))
                  /\ pc[c] = "sleep" => pages[Len(asked)].next # NULL
            /\ Fetched(c, kind) =>
                  /\ Len(asked) = Len(pages)
                  /\ pages[Len(asked)].next = NULL
                  /\ loc[c].retrieved[kind] = Len(AllRecords(world, kind))
                  /\ loc[c].kind = kind => loc[c].list = AllRecords(world, kind)

\* C14 witness: a fetch over a chain of three pages has returned
C14_Witness ==
    \E c \in Calls :
        /\ Fetched(c, "contact")
        /\ Len(Pages(world, "contact")) = 3
        /\ Len(PageRequests(loc[c].reqs, "contact")) = 3
        /\ loc[c].idx = Len(loc[c].list)

\* the counter of one kind
Processed(st, kind) ==
    IF kind = "company" THEN st.companiesProcessed ELSE st.contactsProcessed

\* C15: while the pages of a kind are being fetched no record of that kind
\* has been handed to the loop, counted or failed; when a page request fails
\* the call ends with the error, the records of the pages already received
\* are dropped, and the run has transformed and upserted no record of that
\* kind
C15_NoPartialFetch ==
    /\ [](\A c \in Calls :
             (Running(c) /\ pc[c] \in {"page", "sleep"}) =>
                /\ loc[c].list = <<>>
                /\ loc[c].retrieved[loc[c].kind] = 0
                /\ Processed(syncStatus, loc[c].kind) = 0
                /\ RecordErrors(syncStatus.errors, loc[c].kind) = {})
    /\ [][\A c \in Calls :
             RequestFailed(c, "100") =>
                /\ result'[c].type = "error"
                /\ pc'[c] = "idle"
                /\ loc'[c].list = <<>> /\ loc'[c].acc = <<>>
                /\ loc'[c].retrieved[loc[c].kind] = 0
                /\ Processed(syncStatus', loc[c].kind) = 0
                /\ RecordErrors(syncStatus'.errors, loc[c].kind) = {}
                /\ companies' = companies /\ contacts' = contacts
                /\ nextId' = nextId]_vars

\* C15 witness: the second page of contacts failed after the first had been
\* received; the run ended with the error and no contact was processed
C15_Witness ==
    \E c \in Calls :
        /\ ~Running(c) /\ result[c] = FatalError /\ ~syncStatus.isRunning
        /\ Len(PageRequests(loc[c].reqs, "contact")) = 2
        /\ ~Last(loc[c].reqs).ok
        /\ Pages(world, "contact")[1].results # <<>>
        /\ syncStatus.contactsProcessed = 0
        /\ syncStatus.companiesProcessed > 0

\* the external ids of the contacts of a data set that have no email
SkippedIds(w) ==
    {AllRecords(w, "contact")[i].id : i \in SkippedContacts(w)}

\* the contacts without email among the first n of a list
SkippedBefore(list, n) ==
    {i \in 1..n : ~Truthy(cleanString(list[i].properties.email))}

\* C16: a contact whose email is missing or blank after trimming is never
\* at an upsert, never stored and never named in errors; the records before
\* the one a run is at are each counted, failed or skipped, so those after a
\* skipped one are processed; a run over N contacts of which exactly one is
\* skipped and none fails returns its summary with contactsProcessed = N - 1
C16_ContactWithoutEmailSkipped ==
    /\ [](/\ \A r \in contacts : r.hubspot_id \notin SkippedIds(world)
          /\ \A i \in RecordErrors(syncStatus.errors, "contact") :
                syncStatus.errors[i][2] \notin SkippedIds(world)
          /\ \A c \in Calls :
                (Running(c) /\ loc[c].kind = "contact" /\ loc[c].idx > 0) =>
                   /\ loc[c].idx \in SkippedBefore(loc[c].list, Len(loc[c].list))
                         => pc[c] = "lookup"
                   /\ syncStatus.contactsProcessed
                        + Cardinality(RecordErrors(syncStatus.errors, "contact"))
                        + Cardinality(SkippedBefore(loc[c].list, loc[c].idx - 1))
                      = loc[c].idx - 1)
    /\ [][\A c \in Calls :
             (/\ Running(c) /\ pc'[c] = "idle" /\ result'[c].type = "summary"
              /\ Cardinality(SkippedContacts(world)) = 1
              /\ RecordErrors(syncStatus'.errors, "contact") = {}) =>
                /\ ~syncStatus'.isRunning
                /\ syncStatus'.contactsProcessed
                      = Len(AllRecords(world, "contact")) - 1
                /\ result'[c].contactsSynced = syncStatus'.contactsProcessed]_vars

\* C16 witness: a run over three contacts, the second without email,
\* returned its summary with two contacts processed and no error
C16_Witness ==
    \E c \in Calls :
        /\ ~Running(c) /\ result[c].type = "summary" /\ ~syncStatus.isRunning
        /\ SkippedContacts(world) = {2}
        /\ Len(AllRecords(world, "contact")) = 3
        /\ syncStatus.contactsProcessed = 2
        /\ syncStatus.errors = <<>>

\* C17: every fetched company, whatever its name and domain, is transformed
\* with the placeholder in place of a missing field and handed to upsert:
\* the company loop takes the records one by one and is at an upsert for
\* each, and the phase ends only after the last one
C17_CompanyNeverSkipped ==
    /\ [](\A c \in Calls :
             (Running(c) /\ loc[c].kind = "company" /\ loc[c].idx > 0) =>
                LET h == loc[c].list[loc[c].idx]
                    name == cleanString(h.properties.name)
                    domain == cleanString(h.properties.domain)
                IN  /\ pc[c] \in UpsertSteps
                    /\ loc[c].data.hubspot_id = h.id
                    /\ loc[c].data.name = IF name = "" THEN UnknownCompany ELSE name
                    /\ loc[c].data.domain = IF domain = "" THEN UnknownDomain ELSE domain
                    /\ syncStatus.companiesProcessed
                         + Cardinality(RecordErrors(syncStatus.errors, "company"))
                       = loc[c].idx - 1)
    /\ [][\A c \in Calls :
             (Running(c) /\ loc[c].kind = "company" /\ loc'[c] # loc[c]) =>
                IF loc'[c].kind = "company"
                THEN loc'[c].idx \in {loc[c].idx, loc[c].idx + 1}
                ELSE \/ loc[c].idx = Len(loc[c].list)
                     \/ ~Running(c)' /\ result'[c].type = "error"]_vars

\* C17 witness: a company that came without name and domain is stored under
\* the placeholders
C17_Witness ==
    /\ \E h \in {AllRecords(world, "company")[i] :
                    i \in DOMAIN AllRecords(world, "company")} :
          /\ cleanString(h.properties.name) = ""
          /\ cleanString(h.properties.domain) = ""
          /\ \E r \in companies :
                /\ r.hubspot_id = h.id
                /\ r.name = UnknownCompany /\ r.domain = UnknownDomain

\* call c is at the upsert of a contact that names a company which the
\* lookup did not yield
Unresolved(c) ==
    /\ pc[c] \in UpsertSteps
    /\ loc[c].kind = "contact"
    /\ Truthy(loc[c].list[loc[c].idx].properties.associatedcompanyid)
    /\ ~Truthy(loc[c].data.company_id)

\* call c leaves the record it is at
RecordLeft(c) == pc'[c] = "idle" \/ loc'[c].idx # loc[c].idx

\* C18: when the lookup of a contact's company finds nothing or fails,
\* nothing is appended to errors and the contact goes to upsert; when that
\* upsert returns, the contact is stored without a company association and
\* contactsProcessed has been incremented for it
C18_LookupDegrades ==
    [][\A c \in Calls :
          /\ (pc[c] = "lookup" /\ loc'[c] # loc[c]) =>
                /\ syncStatus'.errors = syncStatus.errors
                /\ result'[c].type # "error"
          /\ (Unresolved(c) /\ RecordLeft(c) /\ ~UpsertThrows(c)) =>
                /\ syncStatus'.errors = syncStatus.errors
                /\ syncStatus'.contactsProcessed = syncStatus.contactsProcessed + 1
                /\ \E r \in contacts' :
                      /\ r.hubspot_id = loc[c].data.hubspot_id
                      /\ r.email = loc[c].data.email
                      /\ r.company_id = NULL]_vars

\* the company reference of contact row k identifies a company of cs
Referenced(cs, k) == k.company_id = NULL \/ \E r \in cs : r.id = k.company_id

\* C19: every stored contact references no company or a stored one, and a
\* contact row is only written while the company it references is stored,
\* also when a client deletes the company between the lookup and the upsert
C19_NoDanglingCompanyReference ==
    /\ [](\A k \in contacts : Referenced(companies, k))
    /\ [][\A k \in contacts' \ contacts :
             Referenced(companies, k) /\ Referenced(companies', k)]_vars

\* a client deleted the company the lookup had found, and the upsert of the
\* contact was refused
C19_Witness ==
    /\ \E i \in DOMAIN log :
          log[i].op = "delete" /\ log[i].kind = "company" /\ log[i].ok
    /\ companies = {} /\ contacts = {}
    /\ RecordErrors(syncStatus.errors, "contact") # {}
    /\ crud.pc = "idle" /\ \A c \in Calls : ~Running(c)

\* a step in which a call to syncCrmData starts a run
RunStarts == \E c \in Calls : pc[c] = "idle" /\ pc'[c] # "idle"

\* sequence t is sequence s, or s with one entry appended
GrowsByAtMostOne(s, t) ==
    \/ t = s
    \/ Len(t) = Len(s) + 1 /\ SubSeq(t, 1, Len(s)) = s

\* C20: the step that starts a run sets both counters to 0, errors to the
\* empty list and startedAt to the current time; every other step leaves
\* errors as it was or appends one entry to it, and decreases no counter
C20_StatusGrowsWithinRun ==
    [][IF RunStarts
       THEN /\ syncStatus'.companiesProcessed = 0
            /\ syncStatus'.contactsProcessed = 0
            /\ syncStatus'.errors = << >>
            /\ syncStatus'.startedAt = getCurrentTimestamp
            /\ syncStatus'.startedAt # NULL
       ELSE /\ GrowsByAtMostOne(syncStatus.errors, syncStatus'.errors)
            /\ syncStatus'.companiesProcessed >= syncStatus.companiesProcessed
            /\ syncStatus'.contactsProcessed >= syncStatus.contactsProcessed]_vars

\* a second run has just started after a run that processed records and
\* recorded the failure of a contact: the counters and errors are reset
C20_Witness ==
    \E c, d \in Calls :
        /\ c # d /\ pc[c] = "health"
        /\ result[d].type = "summary"
        /\ result[d].companiesSynced > 0 /\ result[d].contactsSynced > 0
        /\ world = 1 /\ faultsLeft = MaxFaults
        /\ syncStatus.companiesProcessed = 0
        /\ syncStatus.contactsProcessed = 0
        /\ syncStatus.errors = << >>
        /\ syncStatus.startedAt # NULL

\* call c takes its terminal transition in this step
RunEnds(c) == Running(c) /\ pc'[c] = "idle"

\* no request of call c is answered with a failure in this step: neither the
\* health check nor a page request, the only sources of a fatal failure
NoFatalFailure(c) == ~RequestFailed(c, "1") /\ ~RequestFailed(c, "100")

\* C21: a run that ends without a fatal failure ends Completed whatever the
\* per-record errors: isRunning is false, completedAt is set, and the summary
\* returned has companiesSynced = companiesProcessed, contactsSynced =
\* contactsProcessed and syncedAt = completedAt
C21_NormalEndCompletes ==
    [][\A c \in Calls :
          (RunEnds(c) /\ NoFatalFailure(c)) =>
             /\ ~syncStatus'.isRunning
             /\ syncStatus'.completedAt = getCurrentTimestamp
             /\ syncStatus'.completedAt # NULL
             /\ result'[c].type = "summary"
             /\ result'[c].companiesSynced = syncStatus'.companiesProcessed
             /\ result'[c].contactsSynced = syncStatus'.contactsProcessed
             /\ result'[c].syncedAt = syncStatus'.completedAt]_vars

\* a run has completed with per-record errors of both phases collected
C21_Witness ==
    \E c \in Calls :
        /\ result[c].type = "summary"
        /\ \A d \in Calls : ~Running(d)
        /\ ~syncStatus.isRunning
        /\ RecordErrors(syncStatus.errors, "company") # {}
        /\ RecordErrors(syncStatus.errors, "contact") # {}
        /\ result[c].contactsSynced = syncStatus.contactsProcessed
        /\ result[c].contactsSynced > 0

\* a step of the sync pipeline: the API client takes no part in it
PipelineStep ==
    crud' = crud /\ crudLeft' = crudLeft /\ other' = other /\ log' = log

\* every row of a table is still there, by local id, in the table after
Kept(before, after) == \A r \in before : \E q \in after : q.id = r.id

\* the external ids the CRM serves for one resource
FetchedIds(w, kind) ==
    {AllRecords(w, kind)[i].id : i \in DOMAIN AllRecords(w, kind)}

\* C22: no step of the sync pipeline removes a stored company or contact,
\* whether or not its external id is among the fetched records, so neither
\* store gets smaller because of a sync
C22_SyncNeverDeletes ==
    [][PipelineStep =>
          /\ Kept(companies, companies') /\ Kept(contacts, contacts')
          /\ Cardinality(companies') >= Cardinality(companies)
          /\ Cardinality(contacts') >= Cardinality(contacts)]_vars

\* a run has completed while the stores hold a company or a contact whose
\* external id the CRM does not serve, next to the entities the run upserted
C22_Witness ==
    \E c \in Calls :
        /\ result[c].type = "summary"
        /\ syncStatus.companiesProcessed > 0
        /\ \E r \in companies \cup contacts :
              r.hubspot_id \notin FetchedIds(world, "company")
                                    \cup FetchedIds(world, "contact")
        /\ \E r \in companies : r.hubspot_id \in FetchedIds(world, "company")

\* the health-check requests in a request log
HealthRequests(reqs) == SelectSeq(reqs, LAMBDA q : q.limit = HealthRequest(TRUE).limit)

\* C23: healthCheck() issues one request and, however the request ends
\* (success, non-success status, transport error, timeout), returns a
\* boolean and never throws; the boolean is true exactly on success
C23_HealthCheckNeverRaises ==
    \A c \in Calls :
        LET h == loc[c].health
        IN  /\ h.outcome = NULL => (pc[c] \in {"idle", "health"} /\ h.call.type = "none")
            /\ h.outcome # NULL =>
                  /\ h.outcome \in HttpOutcomes
                  /\ h.call.type = "return"
                  /\ h.call.value \in BOOLEAN
                  /\ h.call.value <=> (h.outcome = "success")
                  /\ Len(HealthRequests(loc[c].reqs)) = 1

\* the health checks of two runs ended one with a transport error and one
\* with a timeout, and both returned false; the run of the second was failed
C23_Witness ==
    \E c, d \in Calls :
        /\ loc[c].health.outcome = "network" /\ ~loc[c].health.call.value
        /\ loc[d].health.outcome = "timeout" /\ ~loc[d].health.call.value
        /\ result[d] = Unavailable

\* a syncCrmData() call is made in this step while call c has passed the
\* guard and is still at its first await: the two calls race at the check
RacesWith(c) == pc[c] = "health" /\ runsLeft' = runsLeft - 1

\* C24 as stated: the guard is a non-atomic check-then-set, so a call made
\* while another call has only just passed the check also observes
\* not-Running, passes the guard and becomes Running beside it
C24_RacingCallsBothPass ==
    [][\A c \in Calls :
          RacesWith(c) => \E d \in Calls \ {c} : ~Running(d) /\ Running(d)']_vars

\* C24 as amended: the check and the set of isRunning are one step with no
\* await between them; a call passes the guard only when no call is Running
\* and isRunning is set when its step ends, and a call racing with one that
\* has just passed the guard is refused with the 409 conflict error
C24_GuardIsAtomic ==
    /\ [][\A c \in Calls :
             (~Running(c) /\ Running(c)') =>
                /\ ~syncStatus.isRunning /\ syncStatus'.isRunning
                /\ \A d \in Calls \ {c} : ~Running(d) /\ ~Running(d)']_vars
    /\ [][\A c \in Calls :
             RacesWith(c) =>
                /\ pc' = pc /\ syncStatus' = syncStatus
                /\ \E d \in Calls \ {c} : ~Running(d) /\ result'[d] = Conflict]_vars

\* a call was refused while the other call was still at its first await
C24_Witness ==
    \E c, d \in Calls :
        /\ c # d /\ pc[c] = "health" /\ result[d] = Conflict
        /\ syncStatus.isRunning /\ syncStatus.errors = << >>

\* C25: an upsert that returns, returns an entity that is in the store when
\* it returns, never an absent value, also when a delete of the entity ran
\* between the upsert's lookup and its update
C25_UpsertReturnsStored ==
    \A i \in DOMAIN log :
        Upserted(i) => /\ log[i].ret # {}
                       /\ log[i].ret \subseteq TableAt(log[i])

\* request q is a page request for a resource
IsPage(q, kind) == q.path = PageRequest(kind, NULL, TRUE).path /\ q.limit = "100"

\* the positions in a request log of the page requests of one fetch, and of
\* the waits that followed one of them
PagePositions(reqs, kind) == {i \in DOMAIN reqs : IsPage(reqs[i], kind)}
WaitPositions(reqs, kind) ==
    {i \in DOMAIN reqs : i > 1 /\ reqs[i] = SleepRequest /\ IsPage(reqs[i - 1], kind)}

\* call c has waited and is about to ask for the next page of a resource
NextPageDue(c, kind) ==
    /\ pc[c] = "page" /\ loc[c].kind = kind
    /\ loc[c].reqs # << >> /\ Last(loc[c].reqs) = SleepRequest

\* C26: within a fetch every wait comes right after a page request that
\* succeeded and is followed at once by the next page request of the same
\* fetch, two page requests of a fetch are never adjacent, and so a fetch
\* that has made k page requests has waited k - 1 times (k times while the
\* request after the last wait is due): no wait before the first request,
\* none after the last response
C26_DelayOnlyBetweenPages ==
    \A c \in Calls : \A kind \in Kinds :
        LET reqs == loc[c].reqs
            pages == PagePositions(reqs, kind)
            waits == WaitPositions(reqs, kind)
        IN  /\ \A i \in DOMAIN reqs :
                  reqs[i] = SleepRequest =>
                     /\ i > 1 /\ reqs[i - 1].ok
                     /\ \E k \in Kinds :
                           /\ IsPage(reqs[i - 1], k)
                           /\ IF i = Len(reqs) THEN NextPageDue(c, k)
                              ELSE IsPage(reqs[i + 1], k) /\ reqs[i + 1].after # NULL
            /\ \A i \in pages : (i + 1) \notin pages
            /\ \A i \in pages : reqs[i].after = NULL => i - 1 \notin waits
            /\ pc[c] = "sleep" => Last(reqs).ok /\ IsPage(Last(reqs), loc[c].kind)
            /\ pages = {} => waits = {}
            /\ pages # {} =>
                  Cardinality(waits) =
                     IF NextPageDue(c, kind) THEN Cardinality(pages)
                                             ELSE Cardinality(pages) - 1

\* a run has fetched the contacts in three pages and waited twice, and the
\* single page of companies without a wait
C26_Witness ==
    \E c \in Calls :
        /\ result[c].type = "summary"
        /\ Cardinality(PagePositions(loc[c].reqs, "contact")) = 3
        /\ Cardinality(WaitPositions(loc[c].reqs, "contact")) = 2
        /\ Cardinality(PagePositions(loc[c].reqs, "company")) = 1
        /\ WaitPositions(loc[c].reqs, "company") = {}

\* C27: when every external call returns or fails in the end, a call that is
\* Running eventually is not, and the step by which it stops, a thrown error
\* included, sets isRunning to false and completedAt, so that a later call
\* is not refused because of it
C27_RunEventuallyEnds ==
    /\ \A c \in Calls :
          Running(c) ~> (~Running(c) /\ ~syncStatus.isRunning)
    /\ [][\A c \in Calls :
             RunEnds(c) =>
                /\ ~syncStatus'.isRunning
                /\ syncStatus'.completedAt # NULL
                /\ \A d \in Calls : ~Running(d)']_vars

\* one call has ended with the error of a fatal failure and another with a
\* summary, and the orchestrator is not Running
C27_Witness ==
    \E c, d \in Calls :
        /\ result[c] = FatalError /\ result[d].type = "summary"
        /\ ~Running(c) /\ ~Running(d)
        /\ ~syncStatus.isRunning /\ syncStatus.completedAt # NULL

\* the positions of the per-record messages in an error list
RecordPositions(errs) == RecordErrors(errs, "company") \cup RecordErrors(errs, "contact")

\* what a reader sees in a status of a run that is over: its last error is
\* not the message of a record (Failed), or every error is (Completed)
LooksFailed(st) ==
    /\ ~st.isRunning /\ st.completedAt # NULL
    /\ st.errors # << >> /\ Len(st.errors) \notin RecordPositions(st.errors)
LooksCompleted(st) ==
    /\ ~st.isRunning /\ st.completedAt # NULL
    /\ RecordPositions(st.errors) = DOMAIN st.errors

\* C28: the status a run leaves tells how it ended: after a run that ended
\* Failed the last entry of errors is the failure's message, which is not a
\* per-record message, and after a run that ended Completed every entry of
\* errors is a per-record message, so the two statuses always differ
C28_StatusTellsFailedFromCompleted ==
    [][\A c \in Calls :
          RunEnds(c) =>
             /\ result'[c].type \in {"error", "summary"}
             /\ (result'[c].type = "error") <=> LooksFailed(syncStatus')
             /\ (result'[c].type = "summary") <=> LooksCompleted(syncStatus')
             /\ ~(LooksFailed(syncStatus') /\ LooksCompleted(syncStatus'))]_vars

\* a run ended Failed with per-record errors collected before the failure,
\* after another run had ended Completed
C28_Witness ==
    \E c, d \in Calls :
        /\ result[c].type = "error" /\ result[c] # Conflict
        /\ result[d].type = "summary"
        /\ \A e \in Calls : ~Running(e)
        /\ LooksFailed(syncStatus)
        /\ RecordPositions(syncStatus.errors) # {}

\* the upsert of the record call c is at, of the given phase, returns in
\* this step
UpsertReturns(c, kind) ==
    /\ Running(c) /\ loc[c].kind = kind /\ pc[c] \in UpsertSteps
    /\ RecordLeft(c) /\ ~UpsertThrows(c)

\* C29: outside the start of a run, a processed counter moves exactly in the
\* steps in which an upsert of its phase returns, and then by one; so when a
\* run returns its summary, companiesProcessed plus the company entries of
\* errors is the number of fetched companies, and contactsProcessed plus the
\* contact entries of errors plus the contacts skipped for a missing email
\* is the number of fetched contacts
C29_CountersCountUpserts ==
    [][/\ ~RunStarts =>
             /\ syncStatus'.companiesProcessed =
                   IF \E c \in Calls : UpsertReturns(c, "company")
                   THEN syncStatus.companiesProcessed + 1
                   ELSE syncStatus.companiesProcessed
             /\ syncStatus'.contactsProcessed =
                   IF \E c \in Calls : UpsertReturns(c, "contact")
                   THEN syncStatus.contactsProcessed + 1
                   ELSE syncStatus.contactsProcessed
       /\ \A c \in Calls :
             (RunEnds(c) /\ result'[c].type = "summary") =>
                LET st == syncStatus'
                IN  /\ st.companiesProcessed
                         + Cardinality(RecordErrors(st.errors, "company"))
                       = loc[c].retrieved.company
                    /\ loc[c].retrieved.company = Len(AllRecords(world, "company"))
                    /\ st.contactsProcessed
                         + Cardinality(RecordErrors(st.errors, "contact"))
                         + Cardinality(SkippedContacts(world))
                       = loc[c].retrieved.contact
                    /\ loc[c].retrieved.contact = Len(AllRecords(world, "contact"))
                    /\ Len(st.errors) = Cardinality(RecordPositions(st.errors))]_vars

\* a run over two companies and three contacts has completed with one
\* company and one contact upserted, one of each failed and one contact
\* skipped
C29_Witness ==
    \E c \in Calls :
        /\ result[c].type = "summary" /\ ~syncStatus.isRunning
        /\ \A d \in Calls : ~Running(d)
        /\ Len(AllRecords(world, "company")) = 2
        /\ Len(AllRecords(world, "contact")) = 3
        /\ syncStatus.companiesProcessed = 1
        /\ Cardinality(RecordErrors(syncStatus.errors, "company")) = 1
        /\ syncStatus.contactsProcessed = 1
        /\ Cardinality(RecordErrors(syncStatus.errors, "contact")) = 1
        /\ Cardinality(SkippedContacts(world)) = 1

\* call c is fetching the contacts: the company phase of its run is over and
\* no contact has been handled yet
FetchingContacts(c) ==
    Running(c) /\ loc[c].kind = "contact" /\ pc[c] \in {"page", "sleep"}

\* C30: the upsert of a company that returns leaves the company stored with
\* the values of the record; from then on the run changes the company store
\* only by further company upserts, and writes no contact before the contact
\* fetch is over; when a page request of the contact fetch fails, the run
\* ends Failed with both stores as they were, companiesProcessed unchanged,
\* contactsProcessed 0 and no contact named in errors
C30_ContactFailureKeepsCompanies ==
    /\ [](\A c \in Calls :
             FetchingContacts(c) =>
                /\ syncStatus.contactsProcessed = 0
                /\ RecordErrors(syncStatus.errors, "contact") = {}
                /\ loc[c].idx = 0
                /\ loc[c].retrieved.company = Len(AllRecords(world, "company"))
                /\ syncStatus.companiesProcessed
                     + Cardinality(RecordErrors(syncStatus.errors, "company"))
                   = loc[c].retrieved.company)
    /\ [][\A c \in Calls :
             /\ UpsertReturns(c, "company") =>
                   \E r \in companies' :
                      /\ r.hubspot_id = loc[c].data.hubspot_id
                      /\ r.name = loc[c].data.name
                      /\ r.domain = loc[c].data.domain
             /\ (Running(c) /\ loc[c].kind # "contact") => contacts' = contacts
             /\ (Running(c) /\ loc[c].kind = "contact") => companies' = companies
             /\ FetchingContacts(c) => contacts' = contacts
             /\ (FetchingContacts(c) /\ RequestFailed(c, "100")) =>
                   /\ result'[c] = FatalError
                   /\ ~syncStatus'.isRunning
                   /\ companies' = companies /\ contacts' = contacts
                   /\ syncStatus'.companiesProcessed = syncStatus.companiesProcessed
                   /\ syncStatus'.contactsProcessed = 0
                   /\ RecordErrors(syncStatus'.errors, "contact") = {}]_vars

\* the second page of contacts failed after both companies had been upserted:
\* the run is Failed, both companies are stored, no contact is
C30_Witness ==
    \E c \in Calls :
        /\ result[c] = FatalError /\ ~syncStatus.isRunning
        /\ \A d \in Calls : ~Running(d)
        /\ Len(AllRecords(world, "company")) = 2
        /\ syncStatus.companiesProcessed = 2
        /\ syncStatus.contactsProcessed = 0
        /\ \A i \in DOMAIN AllRecords(world, "company") :
              \E r \in companies :
                 /\ r.hubspot_id = AllRecords(world, "company")[i].id
                 /\ r.name = transformHubspotCompany(AllRecords(world, "company")[i]).name
        /\ contacts = {}
        /\ Cardinality(PagePositions(loc[c].reqs, "contact")) = 2
        /\ ~Last(loc[c].reqs).ok

====
